---- MODULE Spec2Model ----
(***************************************************************************)
(* Model of the raster merge / temporal compositing core of cube-builder   *)
(* (cube_builder/utils/processing.py): blend, merge, parse_mask and        *)
(* _qa_statistics.                                                         *)
(*                                                                         *)
(* Rasters are arrays of pixels.  Every array operation of blend and merge *)
(* is elementwise (numpy masks, where, fancy assignment), so a block       *)
(* window is modelled with one pixel: stack_raster, provenance_array, ...  *)
(* are indexed by window.  Values read from raster files are inputs: they  *)
(* are drawn when the code reads them (ds.read(1, window=...)).            *)
(***************************************************************************)
EXTENDS Integers, Sequences, FiniteSets, TLC

(***************************************************************************)
(* Bounds of the model.                                                    *)
(***************************************************************************)
MaxScenes == 2      \* scenes (dates) of a blend activity
MaxVal == 2         \* band data values are 1..MaxVal (plus the nodata value)
NumBlocks == 2      \* block windows of a raster in the I/O specification
MaxPixels == 3      \* pixels of the raster given to _qa_statistics
MaxAssets == 2      \* assets of one merge
MaxVersion == 2     \* versions of a data cube
MaxBands == 2       \* spectral bands of a merge date

(***************************************************************************)
(* Generic helpers.                                                        *)
(***************************************************************************)
Range(s) == {s[i] : i \in DOMAIN s}

RECURSIVE SortedAsc(_)
\* numpy sort of the values of a sequence, ascending.
SortedAsc(s) ==
    IF s = <<>> THEN <<>>
    ELSE LET i == CHOOSE k \in DOMAIN s : \A j \in DOMAIN s : s[k] <= s[j]
             rest == [j \in 1..(Len(s) - 1) |-> IF j < i THEN s[j] ELSE s[j + 1]]
         IN <<s[i]>> \o SortedAsc(rest)

\* float -> integer conversion of ndarray.astype: truncation toward zero of n/2.
TruncHalf(n) == IF n >= 0 THEN n \div 2 ELSE -((-n) \div 2)

\* ndarray.astype to a fixed-width integer type wraps modulo 2^w.
AsType(v, dtype) ==
    CASE dtype = "int16"  -> ((v + 32768) % 65536) - 32768
      [] dtype = "uint16" -> v % 65536
      [] dtype = "uint8"  -> v % 256
      [] OTHER            -> v

(***************************************************************************)
(* Quality masks (parse_mask docstring examples).                          *)
(***************************************************************************)
Fmask ==
    [clear_data |-> {0, 1}, not_clear_data |-> {2, 3, 4}, saturated_data |-> {},
     nodata |-> 255, bits |-> FALSE]

Sen2cor ==
    [clear_data |-> {4, 5, 6, 7}, not_clear_data |-> {2, 3, 8, 9, 10, 11},
     saturated_data |-> {1}, nodata |-> 0, bits |-> FALSE]

\* Quality values the quality rasters of the model hold.  Fmask: clear (0), cloud
\* (2), a code listed in no set of the mask (5) and the mask nodata (255).
\* Sen2cor: vegetation (4), cloud (8), saturated (1) and the mask nodata (0).
QualityValues(m) ==
    IF "nodata" \in DOMAIN m /\ m.nodata = 255 THEN {0, 2, 5, 255} ELSE {4, 8, 1, 0}

\* The nodata values of the band: -9999 (Landsat surface reflectance) or 0.
BandNodata == {-9999, 0}

\* Fmask with the band that holds the radiometric saturation of each date.
FmaskSaturated ==
    [clear_data |-> {0, 1}, not_clear_data |-> {2, 3, 4}, saturated_data |-> {},
     nodata |-> 255, bits |-> FALSE, saturated_band |-> "radsat"]

\* A mask without the nodata key.
NoNodata == [clear_data |-> {0, 1}, not_clear_data |-> {2, 3, 4}]

\* A mask whose clear and not-clear lists share the code 1.
Overlapping ==
    [clear_data |-> {0, 1}, not_clear_data |-> {1, 2}, saturated_data |-> {},
     nodata |-> 255, bits |-> FALSE]

\* A mask that gives only the required keys.
ClearOnly == [clear_data |-> {0, 1}, nodata |-> 255]

\* A bit-encoded mask (Landsat Collection 2 QA_PIXEL): bit 6 clear, bit 7 water,
\* bits 1 to 5 cloud, shadow and snow, value 1 the fill.
LandsatBits ==
    [clear_data |-> {6, 7}, not_clear_data |-> {1, 2, 3, 4, 5}, saturated_data |-> {},
     nodata |-> 1, bits |-> TRUE]

\* dict.get(key, default)
Get(d, key, default) == IF key \in DOMAIN d THEN d[key] ELSE default

(***************************************************************************)
(* Names of the derived bands (constants of the package).                  *)
(***************************************************************************)
\* CLEAR_OBSERVATION_NAME: the clear observation band, CLEAROB.
ClearObservationName == <<"C", "L", "E", "A", "R", "O", "B">>

TotalObservationName == <<"T", "O", "T", "A", "L", "O", "B">>

ProvenanceName == <<"P", "R", "O", "V", "E", "N", "A", "N", "C", "E">>

DatasourceName == <<"D", "A", "T", "A", "S", "O", "U", "R", "C", "E">>

(***************************************************************************)
(* parse_mask and _qa_statistics.                                          *)
(***************************************************************************)
\* The value None where an integer is expected.
PyNone == -1000000

\* The test taken as "the value is falsy": 0 is refused too.
ParseMaskRaisesFalsy(mask) ==
    Get(mask, "nodata", PyNone) = PyNone \/ Get(mask, "nodata", PyNone) = 0

\* parse_mask raises RuntimeError: mask.get('nodata') is None.
ParseMaskRaises(mask) == Get(mask, "nodata", PyNone) = PyNone

\* The dict parse_mask returns; saturated_band is copied when the mask names one.
ParseMask(mask) ==
    LET res == [clear_data |-> mask.clear_data,
                not_clear_data |-> Get(mask, "not_clear_data", {}),
                saturated_data |-> Get(mask, "saturated_data", {}),
                nodata |-> mask.nodata,
                bits |-> Get(mask, "bits", FALSE)]
    IN IF Get(mask, "saturated_band", "") # ""
       THEN [k \in DOMAIN res \cup {"saturated_band"} |->
                IF k = "saturated_band" THEN mask.saturated_band ELSE res[k]]
       ELSE res

\* Bit p of the value v is set.
BitSet(v, p) == (v \div (2 ^ p)) % 2 = 1

\* get_qa_mask (bit mode): TRUE = masked.  A pixel is masked when it is the nodata
\* value, when a not-clear bit is set or when no clear bit is set.
GetQaMask(v, mask) ==
    \/ v = mask.nodata
    \/ \E p \in mask.not_clear_data : BitSet(v, p)
    \/ ~\E p \in mask.clear_data : BitSet(v, p)

\* Size of a selection of the raster by a boolean array (raster[selection].size).
CountWhere(selection) == Cardinality({i \in DOMAIN selection : selection[i]})

\* round(100. * num / den, 2), in hundredths (12.34 is 1234): the nearest
\* hundredth, a tie going to the even one.
RoundPercent(num, den) ==
    LET q == (10000 * num) \div den
        r == (10000 * num) % den
    IN IF 2 * r > den \/ (2 * r = den /\ q % 2 = 1) THEN q + 1 ELSE q

\* The not-clear ratio computed over the whole raster instead of the image area.
NotClearRatioOverClear(clear_pixels, not_clear_pixels) ==
    IF clear_pixels + not_clear_pixels # 0 /\ clear_pixels # 0
    THEN RoundPercent(not_clear_pixels, clear_pixels) ELSE 10000

\* not_clear_ratio of _qa_statistics, in hundredths.
NotClearRatio(clear_pixels, not_clear_pixels) ==
    IF clear_pixels + not_clear_pixels # 0
    THEN RoundPercent(not_clear_pixels, clear_pixels + not_clear_pixels) ELSE 10000

\* clear_pixels and not_clear_pixels of _qa_statistics for a parsed mask.
PixelCounts(raster, mask) ==
    IF mask.bits
    THEN [clear |-> CountWhere([i \in DOMAIN raster |-> ~GetQaMask(raster[i], mask)]),
          not_clear |-> CountWhere([i \in DOMAIN raster |-> GetQaMask(raster[i], mask)])
                          - CountWhere([i \in DOMAIN raster |-> raster[i] = mask.nodata])]
    ELSE [clear |-> CountWhere([i \in DOMAIN raster |-> raster[i] \in mask.clear_data]),
          not_clear |->
              CountWhere([i \in DOMAIN raster |-> raster[i] \in mask.not_clear_data])]

\* _qa_statistics(raster, mask) for a parsed mask: efficacy and cloud ratio in
\* hundredths, with the pixel counts they are computed from.
QaStatistics(raster, mask) ==
    LET c == PixelCounts(raster, mask)
    IN [efficacy |-> RoundPercent(c.clear, Len(raster)),
        cloudratio |-> NotClearRatio(c.clear, c.not_clear),
        clear_pixels |-> c.clear,
        not_clear_pixels |-> c.not_clear,
        total_pixels |-> Len(raster)]

VARIABLES
    stat_raster,              \* _qa_statistics: the raster, a sequence of pixel values
    stat_mask,                \* _qa_statistics: the mask argument
    stat_compute,             \* _qa_statistics: the compute argument
    stat_result,              \* _qa_statistics: the returned tuple and the counts
    activity,                 \* blend: the activity and the keyword arguments of the call
    pc,                       \* position of the running function
    ranked,                   \* blend: bandlist / masklist, the scenes in processing order
    window,                   \* blend: index of the current block window
    order,                    \* blend: index of the current scene within the window
    reads,                    \* blend: values read in the current window, one entry per scene
    stackMA,                  \* blend: per-date masked stack of the current window
    notdonemask,              \* blend: "not done yet" flag of the current window
    data_set_block,           \* blend: dataset provenance of the current window
    stack_raster,             \* blend: best-pixel raster, one value per window
    stack_total_observation,  \* blend: total observation raster
    provenance_array,         \* blend: day-of-year provenance raster
    median_raster,            \* blend: median raster (MED only)
    files,                    \* blend: the output files on disk
    merge_args,               \* merge: the arguments of the call
    assets,                   \* merge: the assets, in iteration order
    asset_index,              \* merge: index of the asset the loop is at
    merge_reads,              \* merge: the pixel read from each asset so far
    raster_merge,             \* merge: the accumulating buffer, one pixel
    raster_provenance,        \* merge: the provenance buffer, one pixel
    merge_result,             \* merge: the returned options and the saved files
    head_response,            \* merge: what requests.head did for the current asset
    call_args,                \* arguments of the pure function under call
    call_result,              \* what the call returned or raised
    ppq_args,                 \* post_processing_quality: the arguments of the call
    quality_file,             \* post_processing_quality: the quality raster on disk
    ppq_raster_merge,         \* post_processing_quality: raster_merge, the raster in memory
    ppq_block,                \* post_processing_quality: index of the current block
    ppq_reads                 \* post_processing_quality: the band pixels read, per block

blendVars ==
    <<activity, pc, ranked, window, order, reads, stackMA, notdonemask, data_set_block,
      stack_raster, stack_total_observation, provenance_array, median_raster, files>>

statVars == <<stat_raster, stat_mask, stat_compute, stat_result>>

mergeVars ==
    <<merge_args, assets, asset_index, merge_reads, raster_merge, raster_provenance,
      merge_result, head_response>>

callVars == <<call_args, call_result>>

ppqVars == <<ppq_args, quality_file, ppq_raster_merge, ppq_block, ppq_reads>>

vars == <<blendVars, statVars, mergeVars, callVars, ppqVars>>

(***************************************************************************)
(* blend: ranking of the scenes.                                           *)
(***************************************************************************)
\* (100. * efficacy / resolution, key) of scene a is greater than that of scene b,
\* as Python compares the tuples of mask_tuples: first the score, then the key.
\* The scores are compared by cross-multiplication (resolutions are positive).
TupleGreater(a, b) ==
    \/ a.efficacy * b.resolution > b.efficacy * a.resolution
    \/ /\ a.efficacy * b.resolution = b.efficacy * a.resolution
       /\ a.key > b.key

RECURSIVE SortedReverse(_)
\* sorted(mask_tuples, reverse=True) over a set of scenes with distinct keys.
SortedReverse(S) ==
    IF S = {} THEN <<>>
    ELSE LET m == CHOOSE x \in S : \A y \in S \ {x} : TupleGreater(x, y)
         IN <<m>> \o SortedReverse(S \ {m})

RECURSIVE StableByScore(_)
\* A stable sort by descending score alone: equal scores keep the input order.
StableByScore(scenes) ==
    IF scenes = <<>> THEN <<>>
    ELSE LET i == CHOOSE k \in DOMAIN scenes :
                    /\ \A j \in DOMAIN scenes :
                          scenes[k].efficacy * scenes[j].resolution
                              >= scenes[j].efficacy * scenes[k].resolution
                    /\ \A j \in 1..(k - 1) :
                          scenes[j].efficacy * scenes[k].resolution
                              # scenes[k].efficacy * scenes[j].resolution
             rest == [j \in 1..(Len(scenes) - 1) |->
                         IF j < i THEN scenes[j] ELSE scenes[j + 1]]
         IN <<scenes[i]>> \o StableByScore(rest)

\* The order in which blend opens and processes the scenes of the activity.
Ranked(scenes) == SortedReverse(Range(scenes))

(***************************************************************************)
(* blend: per-pixel rules of one scene.                                    *)
(***************************************************************************)
\* nodata of the blend: the band's nodata, or the mask nodata for the quality band.
BlendNodata(a) == IF a.band_is_quality THEN a.mask.nodata ELSE a.band_nodata

\* The mask of msrc.read(..., masked=True): the quality file's own nodata, which
\* merge sets to the mask nodata when it writes the quality band.
ReadMask(q, m) == q = m.nodata

\* radsat_extract_bits(data, bit_start, bit_end): the bits bit_start..bit_end of
\* the value, shifted down to bit 0.
RadsatExtractBits(data, bit_start, bit_end) ==
    (data \div (2 ^ bit_start)) % (2 ^ (bit_end - bit_start + 1))

\* The mask of the quality block after the saturation step: when the mask names a
\* saturated band, masked.mask[saturated] = True with
\* saturated = radsat_extract_bits(saturated, 1, 7).astype(bool).
SaturationMask(q, sat, m) ==
    IF "saturated_band" \in DOMAIN m
    THEN ReadMask(q, m) \/ RadsatExtractBits(sat, 1, 7) # 0
    ELSE ReadMask(q, m)

\* Categorical classification of a pixel: TRUE = masked (not usable as clear).
\* m0 is the mask before; the four assignments to masked.mask happen in this
\* order, the last one wins.
CategoricalMask(m0, r, q, nodata, m) ==
    LET m1 == IF q \in m.not_clear_data THEN TRUE ELSE m0
        m2 == IF r = nodata THEN TRUE ELSE m1
        m3 == IF q \in m.saturated_data THEN TRUE ELSE m2
    IN IF q \in m.clear_data THEN FALSE ELSE m3

\* Increment of the total observation counter: copy_mask is the quality block,
\* compared with the nodata of the blend.
TotalIncrement(q, nodata) == IF q # nodata THEN 1 ELSE 0

\* The intersection without the test of the observation: every position still
\* nodata in the stack.
WhereStackNodata(stack, r, nodata) == stack = nodata

\* Positions still nodata in the stack that hold data in this date.
WhereIntersec(stack, r, nodata) == stack = nodata /\ r # nodata

\* Positions clear in this date, done or not.
ClearAnyway(notdone, bmask) == ~bmask

\* Positions clear in this date and not done yet.
ClearNotDone(notdone, bmask) == (notdone /\ ~bmask) /\ ~bmask

\* The day of year recorded by the clear fill alone.
ProvenanceOfClearFill(where_intersec, clear_not_done) == clear_not_done

\* Positions where the day of year and the data set of the date are recorded:
\* those of the opportunistic fill and those of the clear fill.
ProvenanceWritten(where_intersec, clear_not_done) == where_intersec \/ clear_not_done

\* The data values the band file of a scene may hold at a pixel.
BandValues(a) == IF "band_values" \in DOMAIN a THEN a.band_values ELSE 1..MaxVal

\* The values the band file and the quality file of a scene may hold at a pixel.
\* For the quality band both reads are of the same file.
ReadPairs(a) ==
    IF a.band_is_quality
    THEN {<<q, q>> : q \in QualityValues(a.mask)}
    ELSE ({a.band_nodata} \cup BandValues(a)) \X QualityValues(a.mask)

\* Values of the saturation file of a date: no bit set, or bit 1 set.
SaturatedReads(a) ==
    IF "saturated_band" \in DOMAIN ParseMask(a.mask) THEN {0, 2} ELSE {0}

\* The valid range step: raster_where_data is a tuple of index arrays, so
\* bmask[raster_where_data] is a copy of the selected elements and the two
\* assignments change that copy; bmask is what it was.
ApplyValidRange(bmask, raster, nodata, min_value, max_value) == bmask

\* Values of the per-date dataset provenance file (indexes of the datasets).
DatasourceValues(a) ==
    IF a.build_clear_observation /\ a.combined THEN {0, 1} ELSE {0}

(***************************************************************************)
(* blend: block results and output files.                                  *)
(***************************************************************************)
Windows(a) == 1..a.nwindows

\* A raster of the tile holding v everywhere (numpy.full).
Full(a, v) == [w \in Windows(a) |-> v]

NoFile == [exists |-> FALSE, written |-> {}, data |-> <<>>]

\* A dataset opened in mode 'w': the file is created, no window written yet.
CreatedFile(a) == [exists |-> TRUE, written |-> {}, data |-> Full(a, 0)]

\* dataset.write(block, window=w)
WriteWindow(f, w, v) ==
    [f EXCEPT !.written = @ \cup {w}, !.data = [@ EXCEPT ![w] = v]]

\* save_as_cog(path, raster) and dataset.write(raster): the whole raster is written.
WholeFile(a, raster) == [exists |-> TRUE, written |-> Windows(a), data |-> raster]

OutputNames == {"cube", "clear_ob", "total_observation", "provenance", "datasource"}

\* Unmasked values of the per-date stack, in date order.
RECURSIVE Unmasked(_)
Unmasked(stack) ==
    IF stack = <<>> THEN <<>>
    ELSE (IF stack[1].mask THEN <<>> ELSE <<stack[1].data>>) \o Unmasked(Tail(stack))

\* numpy.ma.median(stackMA, axis=0) of a pixel with at least one unmasked entry:
\* the mean of the two middle values, a float, here with its fraction dropped as
\* astype drops it.
MedianValue(stack) ==
    LET v == SortedAsc(Unmasked(stack))
        n == Len(v)
    IN TruncHalf(v[(n + 1) \div 2] + v[(n \div 2) + 1])

\* float.astype(dtype): a negative value has no defined conversion to an unsigned
\* type; it wraps or gives 0, depending on the platform.
FloatAsType(v, dtype) ==
    IF dtype \in {"uint8", "uint16"} /\ v < 0
    THEN {AsType(v, dtype), 0}
    ELSE {AsType(v, dtype)}

\* The values the median of the window may take: nodata where the pixel is still
\* "not done", else the median converted to the type of the band.
BlockMedian(stack, notdone, nodata, dtype) ==
    IF notdone THEN {nodata} ELSE FloatAsType(MedianValue(stack), dtype)

\* numpy.ma.count(stackMA, axis=0)
CountRaster(stack) == Len(Unmasked(stack))

\* numpy.zeros in place of numpy.full: the raster starts at 0.
StackRasterZeros(a) == Full(a, 0)

\* numpy.full((height, width), fill_value=nodata): the empty best-pixel raster.
StackRasterInit(a) == Full(a, BlendNodata(a))

\* The cube file opened for writing together with the clear observation file.
FilesBeforeLoopWithCube(a) ==
    [n \in OutputNames |->
        IF n = "cube" \/ (a.build_clear_observation /\ n = "clear_ob")
        THEN CreatedFile(a)
        ELSE IF a.build_clear_observation /\ a.combined /\ n = "datasource"
             THEN WholeFile(a, Full(a, 255))
        ELSE NoFile]

\* Output files opened for writing before the block loop starts.
FilesBeforeLoop(a) ==
    [n \in OutputNames |->
        IF a.build_clear_observation /\ n = "clear_ob" THEN CreatedFile(a)
        ELSE IF a.build_clear_observation /\ a.combined /\ n = "datasource"
             THEN WholeFile(a, Full(a, 255))
        ELSE NoFile]

\* Output files after the writes at the end of block w.
FilesAfterBlock(f, a, w, count, dsblock) ==
    [n \in OutputNames |->
        IF a.build_clear_observation /\ n = "clear_ob"
        THEN WriteWindow(f[n], w, AsType(count, "uint8"))
        ELSE IF a.build_clear_observation /\ a.combined /\ n = "datasource"
             THEN WriteWindow(f[n], w, dsblock)
        ELSE f[n]]

\* Output files after the final saves.
FilesAtEnd(f, a, stack, median, total, prov) ==
    [n \in OutputNames |->
        CASE n = "cube" ->
                WholeFile(a, IF a.composite_function = "MED" THEN median ELSE stack)
          [] n = "total_observation" ->
                IF a.build_clear_observation THEN WholeFile(a, total) ELSE f[n]
          [] n = "provenance" ->
                IF a.composite_function # "MED" /\ a.build_clear_observation
                THEN WholeFile(a, prov) ELSE f[n]
          [] OTHER -> f[n]]

(***************************************************************************)
(* blend: the steps of the function.                                       *)
(***************************************************************************)
\* Lines 606-762: rank and open the scenes, allocate the rasters, open the
\* clear observation and dataset provenance writers.
BlendOpen ==
    /\ pc = "blend_start"
    /\ IF ParseMaskRaises(activity.mask)
       THEN /\ pc' = "blend_rejected"
            /\ UNCHANGED <<ranked, stack_raster, stack_total_observation, median_raster,
                           provenance_array, files, window, order, reads, stackMA,
                           notdonemask, data_set_block>>
       ELSE /\ ranked' = Ranked(activity.scenes)
            /\ stack_raster' = StackRasterInit(activity)
            /\ stack_total_observation' = Full(activity, 0)
            /\ median_raster' = IF activity.composite_function = "MED"
                                THEN Full(activity, BlendNodata(activity)) ELSE <<>>
            /\ provenance_array' = Full(activity, -1)
            /\ files' = FilesBeforeLoop(activity)
            /\ window' = 1
            /\ order' = 1
            /\ reads' = <<>>
            /\ stackMA' = <<>>
            /\ notdonemask' = TRUE
            /\ data_set_block' = 255
            /\ pc' = "blend_loop"
    /\ UNCHANGED <<activity, statVars, mergeVars, callVars, ppqVars>>

\* Lines 779-888: one scene of the current window.
BlendScene ==
    /\ pc = "blend_loop"
    /\ \E rq \in ReadPairs(activity), ds \in DatasourceValues(activity),
          sat \in SaturatedReads(activity) :
         LET raster == rq[1]
             quality == rq[2]
             nodata == BlendNodata(activity)
             day_of_year == ranked[order].key
             mask_values == ParseMask(activity.mask)
             bmask == CategoricalMask(SaturationMask(quality, sat, mask_values), raster,
                                      quality, nodata, mask_values)
             bmask_done == IF Get(activity, "apply_valid_range", FALSE)
                           THEN ApplyValidRange(bmask, raster, nodata,
                                                activity.min_value, activity.max_value)
                           ELSE bmask
             where_intersec == WhereIntersec(stack_raster[window], raster, nodata)
             clear_not_done == ClearNotDone(notdonemask, bmask)
             fill == where_intersec \/ clear_not_done
             recorded == ProvenanceWritten(where_intersec, clear_not_done)
         IN /\ reads' = Append(reads, [raster |-> raster, quality |-> quality,
                                       datasource |-> ds, saturated |-> sat,
                                       key |-> ranked[order].key])
            /\ stackMA' = Append(stackMA, [mask |-> bmask,
                                           data |-> AsType(raster, "int16")])
            /\ stack_total_observation' =
                  [stack_total_observation EXCEPT
                      ![window] = AsType(@ + TotalIncrement(quality, nodata), "uint8")]
            /\ stack_raster' =
                  [stack_raster EXCEPT ![window] = IF fill THEN raster ELSE @]
            /\ provenance_array' =
                  [provenance_array EXCEPT ![window] = IF recorded THEN day_of_year ELSE @]
            /\ data_set_block' =
                  IF recorded /\ activity.build_clear_observation /\ activity.combined
                  THEN ds ELSE data_set_block
            /\ notdonemask' = (notdonemask /\ bmask_done)
    /\ order' = order + 1
    /\ pc' = IF order = Len(ranked) THEN "blend_block_end" ELSE "blend_loop"
    /\ UNCHANGED <<activity, ranked, window, median_raster, files, statVars, mergeVars, callVars, ppqVars>>

\* Lines 890-902: median and clear observation of the window, then the next window.
BlendBlockEnd ==
    /\ pc = "blend_block_end"
    /\ IF activity.composite_function = "MED"
       THEN \E median \in BlockMedian(stackMA, notdonemask, BlendNodata(activity),
                                       activity.dtype) :
               median_raster' = [median_raster EXCEPT ![window] = median]
       ELSE median_raster' = median_raster
    /\ files' = FilesAfterBlock(files, activity, window, CountRaster(stackMA),
                                data_set_block)
    /\ IF window < activity.nwindows
       THEN /\ window' = window + 1
            /\ order' = 1
            /\ reads' = <<>>
            /\ stackMA' = <<>>
            /\ notdonemask' = TRUE
            /\ data_set_block' = 255
            /\ pc' = "blend_loop"
       ELSE /\ pc' = "blend_close"
            /\ UNCHANGED <<window, order, reads, stackMA, notdonemask, data_set_block>>
    /\ UNCHANGED <<activity, ranked, stack_raster, stack_total_observation,
                   provenance_array, statVars, mergeVars, callVars, ppqVars>>

\* Lines 904-967: close the inputs and save the output rasters.
BlendFinish ==
    /\ pc = "blend_close"
    /\ files' = FilesAtEnd(files, activity, stack_raster, median_raster,
                           stack_total_observation, provenance_array)
    /\ pc' = "blend_done"
    /\ UNCHANGED <<activity, ranked, window, order, reads, stackMA, notdonemask,
                   data_set_block, stack_raster, stack_total_observation,
                   provenance_array, median_raster, statVars, mergeVars, callVars, ppqVars>>

\* An I/O error raised by a read or a write inside the block loop propagates out
\* of blend: nothing is cleaned up.
BlendFail ==
    /\ pc \in {"blend_loop", "blend_block_end"}
    /\ pc' = "blend_failed"
    /\ UNCHANGED <<activity, ranked, window, order, reads, stackMA, notdonemask,
                   data_set_block, stack_raster, stack_total_observation,
                   provenance_array, median_raster, files, statVars, mergeVars, callVars, ppqVars>>

(***************************************************************************)
(* blend: activities and specifications.                                   *)
(***************************************************************************)
\* Scenes in input order with ascending dates; the key of a scene is its date,
\* written as its day of the year.
ScenesOf(n, Effs, Ress) ==
    {s \in [1..n -> [key : 1..n, efficacy : Effs, resolution : Ress]] :
        \A i \in 1..n : s[i].key = i}

\* Scenes in any input order.
ScenesAnyOrder(n, Effs, Ress) ==
    {s \in [1..n -> [key : 1..n, efficacy : Effs, resolution : Ress]] :
        \A i, j \in 1..n : i # j => s[i].key # s[j].key}

BlendIdle ==
    /\ ranked = <<>>
    /\ window = 0
    /\ order = 0
    /\ reads = <<>>
    /\ stackMA = <<>>
    /\ notdonemask = TRUE
    /\ data_set_block = 255
    /\ stack_raster = <<>>
    /\ stack_total_observation = <<>>
    /\ provenance_array = <<>>
    /\ median_raster = <<>>
    /\ files = [n \in OutputNames |-> NoFile]

MergeIdle ==
    /\ merge_args = [ndatasets |-> 1]
    /\ assets = <<>>
    /\ asset_index = 0
    /\ merge_reads = <<>>
    /\ raster_merge = 0
    /\ raster_provenance = 255
    /\ merge_result = [saved |-> FALSE]
    /\ head_response = [kind |-> "none", status |-> 0]

PpqIdle ==
    /\ ppq_args = <<>>
    /\ quality_file = <<>>
    /\ ppq_raster_merge = <<>>
    /\ ppq_block = 0
    /\ ppq_reads = <<>>

CallIdle ==
    /\ call_args = <<>>
    /\ call_result = <<>>

StatIdle ==
    /\ stat_raster = <<>>
    /\ stat_mask = Fmask
    /\ stat_compute = FALSE
    /\ stat_result = [efficacy |-> 0, cloudratio |-> 10000, clear_pixels |-> 0,
                      not_clear_pixels |-> 0, total_pixels |-> 0]

\* Pixel semantics: every content of a one-window tile, bands and quality band.
InitBlend ==
    /\ pc = "blend_start"
    /\ \E n \in 1..MaxScenes :
       \E scenes \in ScenesOf(n, {50, 83}, {30}) :
       \E isq \in BOOLEAN :
       \E m \in {Fmask, Sen2cor} :
       \E nd \in (IF isq THEN {m.nodata} ELSE BandNodata) :
       \E fn \in {"STK", "MED"} :
          activity = [scenes |-> scenes, band_is_quality |-> isq, band_nodata |-> nd,
                      mask |-> m, composite_function |-> fn,
                      dtype |-> IF isq THEN "uint8" ELSE "int16",
                      build_clear_observation |-> TRUE, combined |-> FALSE,
                      nwindows |-> 1]
    /\ BlendIdle
    /\ StatIdle
    /\ MergeIdle
    /\ CallIdle
    /\ PpqIdle

NextBlend == BlendOpen \/ BlendScene \/ BlendBlockEnd \/ BlendFinish

SpecBlend == InitBlend /\ [][NextBlend]_vars

\* Saturation and valid range: a spectral band with the valid range 1..1, with
\* or without a saturated band in the mask.
InitBlendFilter ==
    /\ pc = "blend_start"
    /\ \E n \in 1..MaxScenes :
       \E scenes \in ScenesOf(n, {50, 83}, {30}) :
       \E m \in {Fmask, FmaskSaturated} :
       \E avr \in BOOLEAN :
       \E fn \in {"STK", "MED"} :
          activity = [scenes |-> scenes, band_is_quality |-> FALSE, band_nodata |-> -9999,
                      mask |-> m, composite_function |-> fn, dtype |-> "int16",
                      build_clear_observation |-> TRUE, combined |-> FALSE,
                      nwindows |-> 1, apply_valid_range |-> avr,
                      min_value |-> 1, max_value |-> 1]
    /\ BlendIdle
    /\ StatIdle
    /\ MergeIdle
    /\ CallIdle
    /\ PpqIdle

SpecBlendFilter == InitBlendFilter /\ [][NextBlend]_vars

\* Provenance: a spectral band, with and without the clear observation and the
\* combined collections, where the dates come from different data sets.
InitBlendProvenance ==
    /\ pc = "blend_start"
    /\ \E n \in 1..MaxScenes :
       \E scenes \in ScenesOf(n, {50, 83}, {30}) :
       \E bco \in BOOLEAN, cmb \in BOOLEAN :
       \E fn \in {"STK", "MED"} :
          activity = [scenes |-> scenes, band_is_quality |-> FALSE, band_nodata |-> -9999,
                      mask |-> Fmask, composite_function |-> fn, dtype |-> "int16",
                      build_clear_observation |-> bco, combined |-> cmb,
                      nwindows |-> 1]
    /\ BlendIdle
    /\ StatIdle
    /\ MergeIdle
    /\ CallIdle
    /\ PpqIdle

SpecBlendProvenance == InitBlendProvenance /\ [][NextBlend]_vars

\* A band of type uint16 with nodata 0 whose values go beyond 32767.
InitBlendUint16 ==
    /\ pc = "blend_start"
    /\ \E n \in 1..MaxScenes :
       \E scenes \in ScenesOf(n, {50, 83}, {30}) :
       \E fn \in {"STK", "MED"} :
          activity = [scenes |-> scenes, band_is_quality |-> FALSE, band_nodata |-> 0,
                      mask |-> Fmask, composite_function |-> fn, dtype |-> "uint16",
                      build_clear_observation |-> TRUE, combined |-> FALSE,
                      nwindows |-> 1, band_values |-> {30000, 40000}]
    /\ BlendIdle
    /\ StatIdle
    /\ MergeIdle
    /\ CallIdle
    /\ PpqIdle

SpecBlendUint16 == InitBlendUint16 /\ [][NextBlend]_vars

\* Input/output protocol: tiles of several windows, every combination of the
\* composite function and the flags, with failures.
InitBlendIO ==
    /\ pc = "blend_start"
    /\ \E nw \in 1..NumBlocks :
       \E fn \in {"STK", "LCF", "MED"} :
       \E bco \in BOOLEAN, cmb \in BOOLEAN :
       \E mk \in {Fmask, NoNodata} :
          activity = [scenes |-> <<[key |-> 1, efficacy |-> 50, resolution |-> 30]>>,
                      band_is_quality |-> FALSE, band_nodata |-> -9999,
                      mask |-> mk, composite_function |-> fn, dtype |-> "int16",
                      build_clear_observation |-> bco, combined |-> cmb,
                      nwindows |-> nw]
    /\ BlendIdle
    /\ StatIdle
    /\ MergeIdle
    /\ CallIdle
    /\ PpqIdle

NextBlendIO == BlendOpen \/ BlendScene \/ BlendBlockEnd \/ BlendFinish \/ BlendFail

SpecBlendIO == InitBlendIO /\ [][NextBlendIO]_vars

\* Ranking alone: scenes in any input order, several efficacies and resolutions.
InitRank ==
    /\ pc = "blend_start"
    /\ \E n \in 1..MaxScenes :
       \E scenes \in ScenesAnyOrder(n, {50, 83, 100}, {10, 20}) :
          activity = [scenes |-> scenes, band_is_quality |-> FALSE, band_nodata |-> -9999,
                      mask |-> Fmask, composite_function |-> "STK", dtype |-> "int16",
                      build_clear_observation |-> FALSE, combined |-> FALSE,
                      nwindows |-> 1]
    /\ BlendIdle
    /\ StatIdle
    /\ MergeIdle
    /\ CallIdle
    /\ PpqIdle

SpecRank == InitRank /\ [][BlendOpen]_vars

(***************************************************************************)
(* _qa_statistics: the call and its specification.                         *)
(***************************************************************************)
\* Values of the rasters given to _qa_statistics, by mask.
StatValues(m) ==
    CASE m = Sen2cor -> {4, 8, 1, 0}
      [] m = LandsatBits -> {1, 64, 8, 0}
      [] m = Overlapping -> {0, 1, 2, 255}
      [] OTHER -> {0, 2, 5, 255}

StatRasters(m) == UNION {[1..n -> StatValues(m)] : n \in 1..MaxPixels}

\* _qa_statistics(raster, mask, compute): with compute the mask is parsed first,
\* without it the caller passes a parsed mask.
QaStatisticsCall ==
    /\ pc = "stats_start"
    /\ IF stat_compute /\ ParseMaskRaises(stat_mask)
       THEN /\ pc' = "stats_failed"
            /\ UNCHANGED stat_result
       ELSE /\ stat_result' = QaStatistics(stat_raster,
                                           IF stat_compute THEN ParseMask(stat_mask)
                                           ELSE stat_mask)
            /\ pc' = "stats_done"
    /\ UNCHANGED <<stat_raster, stat_mask, stat_compute, activity, ranked, window, order,
                   reads, stackMA, notdonemask, data_set_block, stack_raster,
                   stack_total_observation, provenance_array, median_raster, files,
                   mergeVars, callVars, ppqVars>>

InitStats ==
    /\ pc = "stats_start"
    /\ stat_compute \in BOOLEAN
    /\ \E m \in {Fmask, Sen2cor, Overlapping, ClearOnly, LandsatBits, NoNodata} :
          /\ stat_compute \/ ~ParseMaskRaises(m)
          /\ stat_mask = (IF stat_compute THEN m ELSE ParseMask(m))
          /\ stat_raster \in StatRasters(m)
    /\ stat_result = [efficacy |-> 0, cloudratio |-> 10000, clear_pixels |-> 0,
                      not_clear_pixels |-> 0, total_pixels |-> 0]
    /\ activity = [scenes |-> <<>>]
    /\ BlendIdle
    /\ MergeIdle
    /\ CallIdle
    /\ PpqIdle

SpecStats == InitStats /\ [][QaStatisticsCall]_vars

(***************************************************************************)
(* merge: one date's assets mosaicked into the accumulating buffer.  The    *)
(* buffer operations are elementwise, so the buffers are one pixel; the     *)
(* asset's pixel is the value the reprojection leaves on the target grid.   *)
(***************************************************************************)
\* is_combined_collection
IsCombinedCollection(args) ==
    args.ndatasets > 1 \/ (args.nplatforms > 1 /\ args.combined)

\* nodata of the merge buffer: the band's, the mask's for the quality band.
MergeNodata(args) ==
    IF args.band_is_quality THEN args.mask.nodata ELSE args.band_nodata

\* A pixel of an asset on the target grid.
MergeRasters(args) == {MergeNodata(args)} \cup 1..MaxVal

\* Every valid pixel of the asset, whatever the buffer holds.
MergeWhereValid(merged, raster, nodata) == raster # nodata

\* where_intersec of the combined branch: still nodata in the buffer and valid
\* in the asset.
MergeWhereIntersec(merged, raster, nodata) == merged = nodata /\ raster # nodata

\* The combined branch: only where_intersec is filled.
MergeCombined(merged, raster, nodata) ==
    IF MergeWhereIntersec(merged, raster, nodata) THEN raster ELSE merged

\* An overwrite that does not look at nodata: the asset replaces the buffer
\* everywhere. Not what merge does.
MergeOverwriteEverywhere(merged, raster, nodata) == raster

\* The other branch: every valid pixel of the asset overwrites the buffer.
MergeOverwrite(merged, raster, nodata) ==
    IF raster # nodata THEN raster ELSE merged

\* platforms.index(platform) raises ValueError for a platform not in platforms;
\* such a platform, or none, is index -1.
PlatformIndexRaises(asset) == asset.platform = -1

\* A link: a local path, or an http url with or without access_token= in it.
Links == [http : BOOLEAN, token_in_url : BOOLEAN] \ {[http |-> FALSE, token_in_url |-> TRUE]}

LocalLink == [http |-> FALSE, token_in_url |-> FALSE]

\* What requests.head does: it returns the response whatever its status (only
\* response.raise_for_status() raises HTTPError, and it is not called), or raises
\* ConnectionError when the host cannot be reached.
HeadOutcomes ==
    {[kind |-> "response", status |-> st] : st \in {200, 403, 500}}
        \cup {[kind |-> "ConnectionError", status |-> 0]}

NoRequest == [kind |-> "none", status |-> 0]

\* The message of the HTTPError handler.
HttpErrorMessage(status, link, access_token) ==
    IF status = 403
    THEN IF access_token \/ link.token_in_url
         THEN "You don't have permission to request this resource."
         ELSE "Missing Authentication Token."
    ELSE IF status = 500 THEN "Could not request this resource."
    ELSE "str(e)"

\* _check_rio_file_access(url, access_token) given what requests.head does.
CheckRioFileAccess(link, access_token, outcome) ==
    IF ~link.http THEN [raised |-> "none", msg |-> ""]
    ELSE IF outcome.kind = "ConnectionError"
         THEN [raised |-> "ConnectionError", msg |-> "Connection refused"]
    ELSE IF outcome.kind = "HTTPError"
         THEN [raised |-> "HTTPError",
               msg |-> HttpErrorMessage(outcome.status, link, access_token)]
    ELSE [raised |-> "none", msg |-> ""]

\* The buffers are created: the merge buffer full of nodata, the provenance
\* buffer (used with build_provenance only) full of its nodata, 255.
MergeStart ==
    /\ pc = "merge_start"
    /\ raster_merge' = MergeNodata(merge_args)
    /\ raster_provenance' = 255
    /\ asset_index' = 1
    /\ pc' = "merge_loop"
    /\ UNCHANGED <<merge_args, assets, merge_reads, merge_result, head_response,
                   statVars, callVars, ppqVars, activity, ranked, window, order, reads, stackMA, notdonemask, data_set_block,
                   stack_raster, stack_total_observation, provenance_array,
                   median_raster, files>>

\* One iteration of the loop over the assets.
MergeAsset ==
    /\ pc = "merge_read"
    /\ \E raster \in MergeRasters(merge_args) :
          LET asset == assets[asset_index]
              nodata == MergeNodata(merge_args)
              combined == IsCombinedCollection(merge_args)
              filled == combined /\ MergeWhereIntersec(raster_merge, raster, nodata)
              byDataset == IF filled /\ merge_args.build_provenance
                           THEN asset.dataset ELSE raster_provenance
          IN /\ merge_reads' = Append(merge_reads, raster)
             /\ raster_merge' = IF combined
                                THEN MergeCombined(raster_merge, raster, nodata)
                                ELSE MergeOverwrite(raster_merge, raster, nodata)
             /\ IF merge_args.build_provenance /\ PlatformIndexRaises(asset)
                THEN /\ raster_provenance' = byDataset
                     /\ pc' = "merge_failed"
                     /\ UNCHANGED asset_index
                ELSE /\ raster_provenance' =
                           IF merge_args.build_provenance /\ raster # nodata
                           THEN asset.platform ELSE byDataset
                     /\ asset_index' = asset_index + 1
                     /\ pc' = "merge_loop"
    /\ UNCHANGED <<merge_args, assets, merge_result, head_response, statVars, callVars, ppqVars, activity,
                   ranked, window, order, reads, stackMA, notdonemask, data_set_block,
                   stack_raster, stack_total_observation, provenance_array,
                   median_raster, files>>

\* After the loop: statistics of the quality band, then the files are saved.
\* Without any asset there is no template and the function raises.
MergeSave ==
    /\ pc = "merge_loop"
    /\ asset_index > Len(assets)
    /\ IF Len(assets) = 0
       THEN /\ pc' = "merge_failed"
            /\ UNCHANGED merge_result
       ELSE LET stats == IF merge_args.band_is_quality
                         THEN QaStatistics(<<raster_merge>>,
                                           IF merge_args.compute
                                           THEN ParseMask(merge_args.mask)
                                           ELSE merge_args.mask)
                         ELSE [efficacy |-> 0, cloudratio |-> 10000]
            IN /\ merge_result' =
                     [saved |-> TRUE,
                      efficacy |-> stats.efficacy,
                      cloudratio |-> stats.cloudratio,
                      data |-> raster_merge,
                      has_provenance |-> merge_args.band_is_quality
                                         /\ merge_args.build_provenance,
                      provenance |-> raster_provenance]
               /\ pc' = "merge_done"
    /\ UNCHANGED <<merge_args, assets, asset_index, merge_reads, raster_merge,
                   raster_provenance, head_response, statVars, callVars, ppqVars, activity,
                   ranked, window, order, reads, stackMA, notdonemask, data_set_block,
                   stack_raster, stack_total_observation, provenance_array,
                   median_raster, files>>

\* The loop takes the next asset: _check_rio_file_access makes the HEAD request of
\* an http link and raises, or lets merge go on to read the asset.
MergeCheckAccess ==
    /\ pc = "merge_loop"
    /\ asset_index <= Len(assets)
    /\ \E outcome \in (IF assets[asset_index].link.http THEN HeadOutcomes
                        ELSE {NoRequest}) :
          /\ head_response' = outcome
          /\ pc' = IF CheckRioFileAccess(assets[asset_index].link, merge_args.token,
                                         outcome).raised = "none"
                   THEN "merge_read" ELSE "merge_failed"
    /\ UNCHANGED <<merge_args, assets, asset_index, merge_reads, raster_merge,
                   raster_provenance, merge_result, statVars, callVars, ppqVars, activity,
                   ranked, window, order, reads, stackMA, notdonemask, data_set_block,
                   stack_raster, stack_total_observation, provenance_array,
                   median_raster, files>>

InitMerge ==
    /\ pc = "merge_start"
    /\ \E nd \in 1..2, np \in 1..2 :
       \E cmb \in BOOLEAN, bp \in BOOLEAN, q \in BOOLEAN :
          /\ merge_args = [ndatasets |-> nd, nplatforms |-> np, combined |-> cmb,
                           build_provenance |-> bp, band_is_quality |-> q,
                           band_nodata |-> -9999, mask |-> Fmask, compute |-> TRUE,
                           token |-> FALSE]
          /\ \E n \in 0..MaxAssets :
                assets \in [1..n -> [dataset : 0..(nd - 1), platform : -1..(np - 1),
                                     link : {LocalLink}]]
    /\ head_response = NoRequest
    /\ asset_index = 0
    /\ merge_reads = <<>>
    /\ raster_merge = 0
    /\ raster_provenance = 255
    /\ merge_result = [saved |-> FALSE]
    /\ activity = [scenes |-> <<>>]
    /\ BlendIdle
    /\ StatIdle
    /\ CallIdle
    /\ PpqIdle

NextMerge == MergeStart \/ MergeCheckAccess \/ MergeAsset \/ MergeSave

SpecMerge == InitMerge /\ [][NextMerge]_vars

\* The pre-flight check: one dataset, links of every kind, with and without token.
InitAccess ==
    /\ pc = "merge_start"
    /\ \E token \in BOOLEAN :
          merge_args = [ndatasets |-> 1, nplatforms |-> 1, combined |-> FALSE,
                        build_provenance |-> FALSE, band_is_quality |-> FALSE,
                        band_nodata |-> -9999, mask |-> Fmask, compute |-> TRUE,
                        token |-> token]
    /\ \E n \in 1..MaxAssets :
          assets \in [1..n -> [dataset : {0}, platform : {0}, link : Links]]
    /\ head_response = NoRequest
    /\ asset_index = 0
    /\ merge_reads = <<>>
    /\ raster_merge = 0
    /\ raster_provenance = 255
    /\ merge_result = [saved |-> FALSE]
    /\ activity = [scenes |-> <<>>]
    /\ BlendIdle
    /\ StatIdle
    /\ CallIdle
    /\ PpqIdle

SpecAccess == InitAccess /\ [][NextMerge]_vars

(***************************************************************************)
(* get_item_id and build_cube_path.  A string is a sequence of characters. *)
(***************************************************************************)
Digits == <<"0", "1", "2", "3", "4", "5", "6", "7", "8", "9">>

\* str.upper / str.lower of a character (the conversions of StringFormatter).
Uppers ==
    <<"A", "B", "C", "D", "E", "F", "G", "H", "I", "J", "K", "L", "M",
      "N", "O", "P", "Q", "R", "S", "T", "U", "V", "W", "X", "Y", "Z">>

Lowers ==
    <<"a", "b", "c", "d", "e", "f", "g", "h", "i", "j", "k", "l", "m",
      "n", "o", "p", "q", "r", "s", "t", "u", "v", "w", "x", "y", "z">>

UpperChar(c) ==
    IF \E i \in DOMAIN Lowers : Lowers[i] = c
    THEN Uppers[CHOOSE i \in DOMAIN Lowers : Lowers[i] = c] ELSE c

LowerChar(c) ==
    IF \E i \in DOMAIN Uppers : Uppers[i] = c
    THEN Lowers[CHOOSE i \in DOMAIN Uppers : Uppers[i] = c] ELSE c

StrUpper(s) == [i \in DOMAIN s |-> UpperChar(s[i])]

StrLower(s) == [i \in DOMAIN s |-> LowerChar(s[i])]

\* str(n) for n >= 0.
RECURSIVE IntToStr(_)
IntToStr(n) ==
    IF n < 10 THEN <<Digits[n + 1]>>
    ELSE IntToStr(n \div 10) \o <<Digits[(n % 10) + 1]>>

\* int(s) of a string of digits.
RECURSIVE StrToInt(_)
StrToInt(s) ==
    IF s = <<>> THEN 0
    ELSE 10 * StrToInt(SubSeq(s, 1, Len(s) - 1))
            + (CHOOSE d \in 0..9 : Digits[d + 1] = s[Len(s)])

\* '{0:0wd}'.format(n)
RECURSIVE ZeroPad(_, _)
ZeroPad(n, w) ==
    LET t == IntToStr(n)
    IN IF Len(t) >= w THEN t ELSE <<"0">> \o ZeroPad(n, w - 1)

\* s.replace(c, '')
RECURSIVE RemoveChar(_, _)
RemoveChar(s, c) ==
    IF s = <<>> THEN <<>>
    ELSE (IF Head(s) = c THEN <<>> ELSE <<Head(s)>>) \o RemoveChar(Tail(s), c)

\* s[a:b] of Python, 0-based, end exclusive, clipped to the string.
Slice(s, a, b) == SubSeq(s, a + 1, IF b < Len(s) THEN b ELSE Len(s))

\* get_item_id with the default format '{datacube:upper}_V{version}_{tile_id}_{start_date}'.
GetItemId(datacube, version, tile, date) ==
    StrUpper(datacube) \o <<"_", "V">> \o IntToStr(version) \o <<"_">> \o tile
        \o <<"_">> \o Slice(RemoveChar(date, "-"), 0, 8)

\* build_cube_path with the default formats, suffix '.tif' and a band.
BuildCubePath(datacube, period, tile_id, version, band, prefix, composed) ==
    LET folder == IF composed THEN <<"c", "o", "m", "p", "o", "s", "e", "d">>
                  ELSE <<"i", "d", "e", "n", "t", "i", "t", "y">>
        path == Slice(tile_id, 0, 3)
        row == Slice(tile_id, Len(tile_id) - 3, Len(tile_id))
        year == Slice(period, 0, 4)
        month == ZeroPad(StrToInt(Slice(period, 5, 7)), 2)
        day == ZeroPad(StrToInt(Slice(period, 8, 10)), 2)
        file_name == GetItemId(datacube, version, tile_id, period) \o <<"_">> \o band
                        \o <<".", "t", "i", "f">>
    IN prefix \o <<"/">> \o folder \o <<"/">> \o StrLower(datacube) \o <<"/", "v">>
          \o IntToStr(version) \o <<"/">> \o path \o <<"/">> \o row \o <<"/">> \o year
          \o <<"/">> \o month \o <<"/">> \o day \o <<"/">> \o file_name

\* Inputs: cube names, tiles, periods and bands.
CubeNames == {<<"a">>, <<"A">>, <<"b">>}

TileIds == {<<"0", "0", "7", "0", "0", "4">>, <<"0", "0", "7", "0", "0", "5">>}

Periods ==
    {<<"2", "0", "2", "0", "-", "0", "1", "-", "0", "1", "_",
       "2", "0", "2", "0", "-", "0", "1", "-", "1", "6">>,
     <<"2", "0", "2", "0", "-", "0", "1", "-", "0", "1", "_",
       "2", "0", "2", "0", "-", "0", "1", "-", "3", "1">>,
     <<"2", "0", "2", "0", "-", "0", "1", "-", "1", "7", "_",
       "2", "0", "2", "0", "-", "0", "1", "-", "3", "1">>}

BandNames == {<<"B", "1">>, <<"B", "2">>}

PathInputs ==
    [datacube : CubeNames, version : 1..MaxVersion, tile_id : TileIds,
     period : Periods, band : BandNames]

\* The path and the item id of one input tuple.
PathOf(in, composed) ==
    [path |-> BuildCubePath(in.datacube, in.period, in.tile_id, in.version, in.band,
                            <<"w">>, composed),
     item_id |-> GetItemId(in.datacube, in.version, in.tile_id, in.period)]

\* build_cube_path and get_item_id are called for two input tuples, twice each.
BuildCubePathCall ==
    /\ pc = "path_start"
    /\ call_result' = [a |-> PathOf(call_args.a, call_args.composed),
                       b |-> PathOf(call_args.b, call_args.composed),
                       again |-> PathOf(call_args.a, call_args.composed)]
    /\ pc' = "path_done"
    /\ UNCHANGED <<call_args, statVars, mergeVars, ppqVars, activity, ranked, window, order,
                   reads, stackMA, notdonemask, data_set_block, stack_raster,
                   stack_total_observation, provenance_array, median_raster, files>>

InitPath ==
    /\ pc = "path_start"
    /\ \E a \in PathInputs, b \in PathInputs, composed \in BOOLEAN :
          call_args = [a |-> a, b |-> b, composed |-> composed]
    /\ call_result = <<>>
    /\ activity = [scenes |-> <<>>]
    /\ BlendIdle
    /\ StatIdle
    /\ MergeIdle
    /\ PpqIdle

SpecPath == InitPath /\ [][BuildCubePathCall]_vars

(***************************************************************************)
(* post_processing_quality: the quality raster of a merge date is patched  *)
(* where a band holds nodata.  One pixel per block.                        *)
(***************************************************************************)
\* s.startswith(prefix)
StartsWith(s, prefix) ==
    Len(s) >= Len(prefix) /\ SubSeq(s, 1, Len(prefix)) = prefix

\* _default_bands: the names as the constants give them and three literals.
DefaultBands ==
    {DatasourceName, <<"n", "d", "v", "i">>, <<"e", "v", "i">>, <<"c", "n", "c">>,
     TotalObservationName, ClearObservationName, ProvenanceName}

\* bands_without_quality
BandsWithoutQuality(bands, quality_band) ==
    SelectSeq(bands, LAMBDA b : b.name # quality_band /\ StrLower(b.name) \notin DefaultBands)

\* The value written where a band holds nodata: 1 for Sentinel-2 data sets, else
\* the nodata of the quality band.
Saturated(datasets, nodata) ==
    IF \E i \in DOMAIN datasets :
          \/ StartsWith(StrLower(datasets[i]), <<"s", "2">>)
          \/ StartsWith(StrLower(datasets[i]), <<"s", "e", "n", "t", "i", "n", "e", "l">>)
    THEN 1 ELSE nodata

\* The two values exchanged: nodata turned into the saturated value.
PatchedQualityExchanged(q, nodata, saturated, found) ==
    IF found THEN (IF q = nodata THEN saturated ELSE nodata) ELSE q

\* The pixel of the quality raster after a block: nodata_positions get the
\* saturated value, then the pixels that were nodata get nodata again.
PatchedQuality(q, nodata, saturated, found) ==
    IF found THEN (IF q = nodata THEN nodata ELSE saturated) ELSE q

\* The quality file is read whole into raster_merge.
PostProcessOpen ==
    /\ pc = "ppq_start"
    /\ ppq_raster_merge' = quality_file
    /\ ppq_block' = 1
    /\ pc' = "ppq_loop"
    /\ UNCHANGED <<ppq_args, quality_file, ppq_reads, statVars, mergeVars, callVars,
                   activity, ranked, window, order, reads, stackMA, notdonemask,
                   data_set_block, stack_raster, stack_total_observation,
                   provenance_array, median_raster, files>>

\* One block: the bands without quality are read and the block is patched.
PostProcessBlock ==
    /\ pc = "ppq_loop"
    /\ ppq_block <= Len(ppq_raster_merge)
    /\ LET todo == BandsWithoutQuality(ppq_args.bands, ppq_args.quality_band)
       IN \E isnodata \in [DOMAIN todo -> BOOLEAN] :
             LET raster == [i \in DOMAIN todo |->
                               [name |-> todo[i].name, nodata |-> todo[i].nodata,
                                value |-> IF isnodata[i] THEN todo[i].nodata ELSE 1]]
                 found == \E i \in DOMAIN raster : raster[i].value = raster[i].nodata
             IN /\ ppq_reads' = Append(ppq_reads, raster)
                /\ ppq_raster_merge' =
                      [ppq_raster_merge EXCEPT
                          ![ppq_block] = PatchedQuality(@, ppq_args.nodata,
                                             Saturated(ppq_args.datasets, ppq_args.nodata),
                                             found)]
    /\ ppq_block' = ppq_block + 1
    /\ UNCHANGED <<pc, ppq_args, quality_file, statVars, mergeVars, callVars,
                   activity, ranked, window, order, reads, stackMA, notdonemask,
                   data_set_block, stack_raster, stack_total_observation,
                   provenance_array, median_raster, files>>

\* After the loop the raster is saved over the quality file.
PostProcessSave ==
    /\ pc = "ppq_loop"
    /\ ppq_block > Len(ppq_raster_merge)
    /\ quality_file' = ppq_raster_merge
    /\ pc' = "ppq_done"
    /\ UNCHANGED <<ppq_args, ppq_raster_merge, ppq_block, ppq_reads, statVars, mergeVars,
                   callVars, activity, ranked, window, order, reads, stackMA, notdonemask,
                   data_set_block, stack_raster, stack_total_observation,
                   provenance_array, median_raster, files>>

\* The k-th spectral band of the merge date; the bands differ in nodata.
SpectralBand(k) ==
    [name |-> <<"B", Digits[k + 1]>>, nodata |-> IF k % 2 = 1 THEN -9999 ELSE 0]

QualityBandName == <<"F", "m", "a", "s", "k">>

\* A derived band among the bands of the date, or none.
DerivedBands ==
    {<<>>, <<[name |-> <<"N", "D", "V", "I">>, nodata |-> -9999]>>,
     <<[name |-> ClearObservationName, nodata |-> 255]>>}

DatasetLists ==
    {<<<<"L", "C", "8">>>>,
     <<<<"L", "C", "8">>, <<"S", "2", "_", "L", "2", "A">>>>,
     <<<<"S", "e", "n", "t", "i", "n", "e", "l", "-", "2">>>>}

InitPostProcess ==
    /\ pc = "ppq_start"
    /\ \E m \in {Fmask, Sen2cor} :
       \E n \in 0..MaxBands, derived \in DerivedBands, datasets \in DatasetLists :
       \E quality \in [1..NumBlocks -> QualityValues(m)] :
          /\ ppq_args = [quality_band |-> QualityBandName, nodata |-> m.nodata,
                         bands |-> <<[name |-> QualityBandName, nodata |-> m.nodata]>>
                                      \o [k \in 1..n |-> SpectralBand(k)] \o derived,
                         datasets |-> datasets, quality |-> quality]
          /\ quality_file = quality
    /\ ppq_raster_merge = <<>>
    /\ ppq_block = 0
    /\ ppq_reads = <<>>
    /\ activity = [scenes |-> <<>>]
    /\ BlendIdle
    /\ StatIdle
    /\ MergeIdle
    /\ CallIdle

NextPostProcess == PostProcessOpen \/ PostProcessBlock \/ PostProcessSave

SpecPostProcess == InitPostProcess /\ [][NextPostProcess]_vars

(***************************************************************************)
(* parse_mask called on its own.                                           *)
(***************************************************************************)
\* A dict with one key, or empty when the key is not given.
Optional(key, values) == {<<>>} \cup {key :> v : v \in values}

\* Mask dicts: clear_data always, every other key given or not, nodata also None.
MaskSpecs ==
    {[clear_data |-> c] @@ nc @@ sat @@ b @@ nd :
        c \in {{0, 1}, {4, 5, 6, 7}},
        nc \in Optional("not_clear_data", {{2, 3, 4}}),
        sat \in Optional("saturated_data", {{1}}),
        b \in Optional("bits", BOOLEAN),
        nd \in Optional("nodata", {PyNone, 0, 255})}

\* parse_mask(mask): raises, or returns the parsed dict.
ParseMaskCall ==
    /\ pc = "parse_start"
    /\ call_result' = IF ParseMaskRaises(call_args)
                      THEN [raised |-> TRUE, value |-> <<>>]
                      ELSE [raised |-> FALSE, value |-> ParseMask(call_args)]
    /\ pc' = "parse_done"
    /\ UNCHANGED <<call_args, statVars, mergeVars, ppqVars, activity, ranked, window,
                   order, reads, stackMA, notdonemask, data_set_block, stack_raster,
                   stack_total_observation, provenance_array, median_raster, files>>

InitParse ==
    /\ pc = "parse_start"
    /\ call_args \in MaskSpecs
    /\ call_result = <<>>
    /\ activity = [scenes |-> <<>>]
    /\ BlendIdle
    /\ StatIdle
    /\ MergeIdle
    /\ PpqIdle

SpecParse == InitParse /\ [][ParseMaskCall]_vars

(***************************************************************************)
(* blend: the files written by two calls that run side by side for two     *)
(* bands of one cube, version, tile and period.  call_args holds the two   *)
(* activities and call_result the position and the paths written per call. *)
(***************************************************************************)
\* cube_file (line 716)
\* cube_file built without the band of the call.
CubeFileNoBand(a) ==
    BuildCubePath(a.datacube, a.period, a.tile_id, a.version, ClearObservationName,
                  <<"w">>, TRUE)

CubeFile(a) ==
    BuildCubePath(a.datacube, a.period, a.tile_id, a.version, a.band, <<"w">>, TRUE)

\* clear_ob_file_path (lines 736-737)
ClearObFilePath(a) ==
    BuildCubePath(a.datacube, a.period, a.tile_id, a.version, ClearObservationName,
                  <<"w">>, TRUE)

\* dataset_file_path (lines 738-739)
DatasetFilePath(a) ==
    BuildCubePath(a.datacube, a.period, a.tile_id, a.version, DatasourceName,
                  <<"w">>, TRUE)

\* total_observation_file (lines 924-925)
TotalObservationFile(a) ==
    BuildCubePath(a.datacube, a.period, a.tile_id, a.version, TotalObservationName,
                  <<"w">>, TRUE)

\* provenance_file (lines 943-944)
ProvenanceFile(a) ==
    BuildCubePath(a.datacube, a.period, a.tile_id, a.version, ProvenanceName,
                  <<"w">>, TRUE)

\* Paths opened for writing before the block loop (lines 733-760).
PathsOpened(a) ==
    IF a.build_clear_observation
    THEN {ClearObFilePath(a)}
            \cup (IF a.is_combined_collection THEN {DatasetFilePath(a)} ELSE {})
    ELSE {}

\* Paths written at the end of a block (lines 896-902).
PathsOfBlock(a) == PathsOpened(a)

\* Paths written after the loop (lines 919-955).
PathsAtEnd(a) ==
    {CubeFile(a)}
      \cup (IF a.build_clear_observation
            THEN {TotalObservationFile(a), ClearObFilePath(a)} ELSE {})
      \cup (IF a.composite_function # "MED" /\ a.build_clear_observation
            THEN {ProvenanceFile(a)}
                    \cup (IF a.is_combined_collection THEN {DatasetFilePath(a)} ELSE {})
            ELSE {})

Units == {1, 2}

\* Call u creates its writers.
UnitOpen(u) ==
    /\ pc = "units"
    /\ call_result[u].pc = "unit_start"
    /\ call_result' = [call_result EXCEPT
            ![u] = [pc |-> "unit_loop", block |-> 0,
                    written |-> PathsOpened(call_args[u])]]
    /\ UNCHANGED <<call_args, blendVars, statVars, mergeVars, ppqVars>>

\* Call u ends one block of the loop.
UnitBlock(u) ==
    /\ pc = "units"
    /\ call_result[u].pc = "unit_loop"
    /\ call_result[u].block < NumBlocks
    /\ call_result' = [call_result EXCEPT
            ![u].block = @ + 1,
            ![u].written = @ \cup PathsOfBlock(call_args[u])]
    /\ UNCHANGED <<call_args, blendVars, statVars, mergeVars, ppqVars>>

\* Call u saves its rasters after the loop.
UnitFinish(u) ==
    /\ pc = "units"
    /\ call_result[u].pc = "unit_loop"
    /\ call_result[u].block = NumBlocks
    /\ call_result' = [call_result EXCEPT
            ![u].pc = "unit_done",
            ![u].written = @ \cup PathsAtEnd(call_args[u])]
    /\ UNCHANGED <<call_args, blendVars, statVars, mergeVars, ppqVars>>

\* Two calls for different bands of one cube, version, tile and period.
UnitPairs ==
    {p \in [Units -> [datacube : {<<"a">>}, version : {1},
                      tile_id : {<<"0", "0", "7", "0", "0", "4">>},
                      period : {<<"2", "0", "2", "0", "-", "0", "1", "-", "0", "1", "_",
                                  "2", "0", "2", "0", "-", "0", "1", "-", "1", "6">>},
                      band : BandNames, composite_function : {"STK", "MED"},
                      build_clear_observation : BOOLEAN,
                      is_combined_collection : BOOLEAN]] :
        /\ p[1].band # p[2].band
        /\ p[1].composite_function = p[2].composite_function
        /\ p[1].is_combined_collection = p[2].is_combined_collection}

InitUnits ==
    /\ pc = "units"
    /\ call_args \in UnitPairs
    /\ call_result = [u \in Units |-> [pc |-> "unit_start", block |-> 0, written |-> {}]]
    /\ activity = [scenes |-> <<>>]
    /\ BlendIdle
    /\ StatIdle
    /\ MergeIdle
    /\ PpqIdle

NextUnits == \E u \in Units : UnitOpen(u) \/ UnitBlock(u) \/ UnitFinish(u)

SpecUnits == InitUnits /\ [][NextUnits]_vars

(***************************************************************************)
(* extract_qa_bits of cube_builder.utils.image.                            *)
(***************************************************************************)
MaxQa == 63

MaxBit == 7

\* a & b of two non-negative integers.
RECURSIVE BitAnd(_, _)
BitAnd(a, b) ==
    IF a = 0 \/ b = 0 THEN 0
    ELSE (a % 2) * (b % 2) + 2 * BitAnd(a \div 2, b \div 2)

\* The value shifted to the right, keeping one bit.
ExtractQaBitsShifted(band_data, bit_location) ==
    BitAnd(band_data \div (2 ^ bit_location), 1)

\* extract_qa_bits: band_data & (1 << bit_location)
ExtractQaBits(band_data, bit_location) ==
    BitAnd(band_data, 2 ^ bit_location)

ExtractQaBitsCall ==
    /\ pc = "bits_start"
    /\ pc' = "bits_done"
    /\ call_result' = ExtractQaBits(call_args.band_data, call_args.bit_location)
    /\ UNCHANGED <<call_args, statVars, mergeVars, ppqVars, activity, ranked, window,
                   order, reads, stackMA, notdonemask, data_set_block, stack_raster,
                   stack_total_observation, provenance_array, median_raster, files>>

InitBits ==
    /\ pc = "bits_start"
    /\ call_args \in [band_data : 0..MaxQa, bit_location : 0..MaxBit]
    /\ call_result = <<>>
    /\ activity = [scenes |-> <<>>]
    /\ BlendIdle
    /\ StatIdle
    /\ MergeIdle
    /\ PpqIdle

SpecBits == InitBits /\ [][ExtractQaBitsCall]_vars

(***************************************************************************)
(* merge: the target grid (rows, cols, transform).                         *)
(***************************************************************************)
MaxDist == 5

\* round(n / d) of Python for positive n and d: a half goes to the even integer.
RoundHalfEven(n, d) ==
    LET q == n \div d
        r == n % d
    IN IF 2 * r < d THEN q
       ELSE IF 2 * r > d THEN q + 1
       ELSE IF q % 2 = 0 THEN q ELSE q + 1

\* No shape given: kwargs.get('shape', None).
NoShape == <<>>

\* transform = None
NoTransform == [kind |-> "none"]

\* The grid taken from the explicit shape before the native grid is looked at.
TargetGridShapeFirst(native_grid, shape, bbox, res, tile) ==
    IF shape # NoShape
    THEN [raised |-> FALSE, cols |-> shape[1], rows |-> shape[2],
          transform |-> NoTransform, shape |-> shape]
    ELSE IF native_grid
    THEN IF tile.found
         THEN [raised |-> FALSE,
               cols |-> (tile.xmax - tile.xmin) \div res.x,
               rows |-> (tile.ymax - tile.ymin) \div res.y,
               transform |-> [kind |-> "affine", a |-> <<res.x, 1>>, c |-> tile.xmin,
                              e |-> <<res.y, 1>>, f |-> tile.ymax],
               shape |-> NoShape]
         ELSE [raised |-> TRUE]
    ELSE LET cols == RoundHalfEven(bbox.dist_x, res.x)
             rows == RoundHalfEven(bbox.dist_y, res.y)
         IN [raised |-> FALSE, cols |-> cols, rows |-> rows,
             transform |-> [kind |-> "affine", a |-> <<bbox.dist_x, cols>>, c |-> bbox.xmin,
                            e |-> <<bbox.dist_y, rows>>, f |-> bbox.ymax],
             shape |-> NoShape]

\* Lines 163-203.  native_grid: the geometry of the tile is looked up (a missing
\* collection, grid or tile raises), cols and rows are the truncated extent over
\* the resolution and shape is set to None.  Else a shape gives cols = shape[0]
\* and rows = shape[1] and no transform.  Else cols and rows are the rounded
\* extent of the bounding box over the resolution, and the resolution is
\* recomputed.  A resolution is kept as the pair <<numerator, denominator>>.
TargetGrid(native_grid, shape, bbox, res, tile) ==
    IF native_grid
    THEN IF tile.found
         THEN [raised |-> FALSE,
               cols |-> (tile.xmax - tile.xmin) \div res.x,
               rows |-> (tile.ymax - tile.ymin) \div res.y,
               transform |-> [kind |-> "affine", a |-> <<res.x, 1>>, c |-> tile.xmin,
                              e |-> <<res.y, 1>>, f |-> tile.ymax],
               shape |-> NoShape]
         ELSE [raised |-> TRUE]
    ELSE IF shape # NoShape
    THEN [raised |-> FALSE, cols |-> shape[1], rows |-> shape[2],
          transform |-> NoTransform, shape |-> shape]
    ELSE LET cols == RoundHalfEven(bbox.dist_x, res.x)
             rows == RoundHalfEven(bbox.dist_y, res.y)
         IN [raised |-> FALSE, cols |-> cols, rows |-> rows,
             transform |-> [kind |-> "affine", a |-> <<bbox.dist_x, cols>>, c |-> bbox.xmin,
                            e |-> <<bbox.dist_y, rows>>, f |-> bbox.ymax],
             shape |-> NoShape]

MergeGridCall ==
    /\ pc = "grid_start"
    /\ call_result' = TargetGrid(call_args.native_grid, call_args.shape, call_args.bbox,
                                 call_args.res, call_args.tile)
    /\ pc' = IF call_result'.raised THEN "grid_failed" ELSE "grid_done"
    /\ UNCHANGED <<call_args, statVars, mergeVars, ppqVars, activity, ranked, window,
                   order, reads, stackMA, notdonemask, data_set_block, stack_raster,
                   stack_total_observation, provenance_array, median_raster, files>>

\* Shapes, bounding boxes and tiles of a few pixels; resolution 2.
GridInputs ==
    [native_grid : BOOLEAN,
     shape : {NoShape, <<1, 2>>, <<4, 3>>},
     bbox : [xmin : {0}, ymax : {8}, dist_x : 3..MaxDist, dist_y : 4..MaxDist],
     res : [x : {2}, y : {2}],
     tile : [found : BOOLEAN, xmin : {0}, ymin : {0}, xmax : {4, 7}, ymax : {6}]]

InitGrid ==
    /\ pc = "grid_start"
    /\ call_args \in GridInputs
    /\ call_result = <<>>
    /\ activity = [scenes |-> <<>>]
    /\ BlendIdle
    /\ StatIdle
    /\ MergeIdle
    /\ PpqIdle

SpecGrid == InitGrid /\ [][MergeGridCall]_vars

(***************************************************************************)
(* merge: the resampling method.                                           *)
(***************************************************************************)
\* quality_band is None, 'resampling' is not in kwargs, the mask has no
\* saturated_band.
Absent == "<none>"

\* get_resample_method(name): the member of Resampling with that name.
GetResampleMethod(name) == name

\* Lines 222-231: nearest by default; for the quality band nothing changes; else
\* a requested method is taken; else bilinear when the mask is not empty and does
\* not name this band as saturated_band, or when there is no quality band.
MergeResampling(band, quality_band, requested, mask) ==
    IF quality_band = band THEN "nearest"
    ELSE IF requested # Absent THEN GetResampleMethod(requested)
    ELSE IF \/ (DOMAIN mask # {} /\ Get(mask, "saturated_band", Absent) # band)
            \/ quality_band = Absent
         THEN "bilinear"
         ELSE "nearest"

MergeResamplingCall ==
    /\ pc = "resampling_start"
    /\ pc' = "resampling_done"
    /\ call_result' = MergeResampling(call_args.band, call_args.quality_band,
                                      call_args.resampling, call_args.mask)
    /\ UNCHANGED <<call_args, statVars, mergeVars, ppqVars, activity, ranked, window,
                   order, reads, stackMA, notdonemask, data_set_block, stack_raster,
                   stack_total_observation, provenance_array, median_raster, files>>

\* A spectral band, the quality band and the saturation band; with and without
\* a quality band, a requested method and a mask.
ResamplingInputs ==
    [band : {"B1", "Fmask", "radsat"},
     quality_band : {"Fmask", Absent},
     resampling : {Absent, "nearest", "bilinear", "cubic"},
     mask : {[x \in {} |-> 0], Fmask, FmaskSaturated}]

InitResampling ==
    /\ pc = "resampling_start"
    /\ call_args \in ResamplingInputs
    /\ call_result = <<>>
    /\ activity = [scenes |-> <<>>]
    /\ BlendIdle
    /\ StatIdle
    /\ MergeIdle
    /\ PpqIdle

SpecResampling == InitResampling /\ [][MergeResamplingCall]_vars

(***************************************************************************)
(* blend: the datasets it opens and closes.  call_args is the activity and *)
(* call_result holds the datasets opened and the datasets closed so far.   *)
(***************************************************************************)
Handle(kind, key) == [kind |-> kind, key |-> key]

\* Lines 654-699: per date the quality dataset, the band dataset, the reader of
\* the data set provenance when the date has one, and the saturation dataset
\* when the mask names a saturated band.
InputsOpened(a) ==
    UNION {{Handle("quality", k), Handle("band", k)}
              \cup (IF a.has_datasource THEN {Handle("datasource_reader", k)} ELSE {})
              \cup (IF a.saturated_band THEN {Handle("saturated", k)} ELSE {})
           : k \in 1..a.nscenes}

\* Lines 733-760: the writers of the clear observation and of the data set
\* provenance.
WritersOpened(a) ==
    IF a.build_clear_observation
    THEN {Handle("clear_ob_writer", 0)}
            \cup (IF a.is_combined_collection THEN {Handle("datasource_writer", 0)} ELSE {})
    ELSE {}

\* Lines 904-907: bandlist[order].close() and masklist[order].close().
InputsClosed(a) ==
    UNION {{Handle("quality", k), Handle("band", k)} : k \in 1..a.nscenes}

\* Lines 919-955: clear_ob_data_set.close() with build_clear_observation;
\* datasource.close() in the branch of the functions other than MED.
WritersClosed(a) ==
    (IF a.build_clear_observation THEN {Handle("clear_ob_writer", 0)} ELSE {})
      \cup (IF /\ a.composite_function # "MED"
               /\ a.build_clear_observation
               /\ a.is_combined_collection
            THEN {Handle("datasource_writer", 0)} ELSE {})

ResourcesOpen ==
    /\ pc = "resources_start"
    /\ pc' = "resources_loop"
    /\ call_result' = [opened |-> InputsOpened(call_args) \cup WritersOpened(call_args),
                       closed |-> {}, block |-> 0]
    /\ UNCHANGED <<call_args, statVars, mergeVars, ppqVars, activity, ranked, window,
                   order, reads, stackMA, notdonemask, data_set_block, stack_raster,
                   stack_total_observation, provenance_array, median_raster, files>>

\* One block of the loop: datasets are read and written, none is opened or closed.
ResourcesBlock ==
    /\ pc = "resources_loop"
    /\ call_result.block < NumBlocks
    /\ call_result' = [call_result EXCEPT !.block = @ + 1]
    /\ UNCHANGED <<pc, call_args, statVars, mergeVars, ppqVars, activity, ranked, window,
                   order, reads, stackMA, notdonemask, data_set_block, stack_raster,
                   stack_total_observation, provenance_array, median_raster, files>>

ResourcesCloseInputs ==
    /\ pc = "resources_loop"
    /\ call_result.block = NumBlocks
    /\ pc' = "resources_save"
    /\ call_result' = [call_result EXCEPT !.closed = @ \cup InputsClosed(call_args)]
    /\ UNCHANGED <<call_args, statVars, mergeVars, ppqVars, activity, ranked, window,
                   order, reads, stackMA, notdonemask, data_set_block, stack_raster,
                   stack_total_observation, provenance_array, median_raster, files>>

\* The rasters are saved, the writers closed and blend returns.
ResourcesReturn ==
    /\ pc = "resources_save"
    /\ pc' = "resources_returned"
    /\ call_result' = [call_result EXCEPT !.closed = @ \cup WritersClosed(call_args)]
    /\ UNCHANGED <<call_args, statVars, mergeVars, ppqVars, activity, ranked, window,
                   order, reads, stackMA, notdonemask, data_set_block, stack_raster,
                   stack_total_observation, provenance_array, median_raster, files>>

\* With the clear observation of combined collections every date has the data
\* set provenance of its merge.
ResourceInputs ==
    {a \in [nscenes : 1..MaxScenes, composite_function : {"STK", "LCF", "MED"},
            build_clear_observation : BOOLEAN, is_combined_collection : BOOLEAN,
            has_datasource : BOOLEAN, saturated_band : BOOLEAN] :
        (a.build_clear_observation /\ a.is_combined_collection) => a.has_datasource}

InitResources ==
    /\ pc = "resources_start"
    /\ call_args \in ResourceInputs
    /\ call_result = <<>>
    /\ activity = [scenes |-> <<>>]
    /\ BlendIdle
    /\ StatIdle
    /\ MergeIdle
    /\ PpqIdle

NextResources ==
    ResourcesOpen \/ ResourcesBlock \/ ResourcesCloseInputs \/ ResourcesReturn

SpecResources == InitResources /\ [][NextResources]_vars

(***************************************************************************)
(* post_processing_quality called again on the file it saved, with the     *)
(* band files of the first call.                                           *)
(***************************************************************************)
\* The second call as a whole: the file is read, every block is patched with
\* what the band files held in the first call, and the raster is saved.
PostProcessAgain ==
    /\ pc = "ppq_done"
    /\ quality_file' =
          [w \in DOMAIN quality_file |->
              PatchedQuality(quality_file[w], ppq_args.nodata,
                                  Saturated(ppq_args.datasets, ppq_args.nodata),
                                  \E i \in DOMAIN ppq_reads[w] :
                                      ppq_reads[w][i].value = ppq_reads[w][i].nodata)]
    /\ pc' = "ppq_again"
    /\ UNCHANGED <<ppq_args, ppq_raster_merge, ppq_block, ppq_reads, statVars, mergeVars,
                   callVars, activity, ranked, window, order, reads, stackMA, notdonemask,
                   data_set_block, stack_raster, stack_total_observation,
                   provenance_array, median_raster, files>>

SpecPostProcessTwice ==
    InitPostProcess /\ [][NextPostProcess \/ PostProcessAgain]_vars

(***************************************************************************)
(* Claims about blend.  In SpecBlend the tile has one window, so the pixel *)
(* of a claim is the pixel of window 1 and reads[k] holds what the k-th    *)
(* processed scene holds there.                                            *)
(***************************************************************************)
\* The scene of the activity with the given key (date).
SceneOfKey(k) == CHOOSE s \in Range(activity.scenes) : s.key = k

\* Scene a has a strictly higher 100 * efficacy / resolution score than scene b.
ScoreHigher(a, b) == a.efficacy * b.resolution > b.efficacy * a.resolution

\* The quality value of the k-th read is in the clear set of the mask.
QualityClear(k) == reads[k].quality \in activity.mask.clear_data

\* The k-th read cannot serve as clear data: its quality is not clear, and it is
\* listed as not clear, saturated or nodata, or the band holds nodata.
NotUsable(k) ==
    /\ ~QualityClear(k)
    /\ \/ reads[k].quality \in
             (activity.mask.not_clear_data \cup activity.mask.saturated_data
                 \cup {activity.mask.nodata})
       \/ reads[k].raster = BlendNodata(activity)

BlendEnded == pc = "blend_done"

C1_FinalPrecedence ==
    BlendEnded =>
        \A a, b \in DOMAIN reads :
            ( /\ ScoreHigher(SceneOfKey(reads[a].key), SceneOfKey(reads[b].key))
              /\ QualityClear(a) /\ QualityClear(b)
              /\ reads[a].raster # BlendNodata(activity) )
            => /\ provenance_array[window] # reads[b].key
               /\ \E c \in DOMAIN reads :
                     /\ provenance_array[window] = reads[c].key
                     /\ stack_raster[window] = reads[c].raster
                     /\ ~ScoreHigher(SceneOfKey(reads[a].key), SceneOfKey(reads[c].key))
               /\ (\A c \in DOMAIN reads \ {a} :
                       \/ ScoreHigher(SceneOfKey(reads[a].key), SceneOfKey(reads[c].key))
                       \/ NotUsable(c))
                  => /\ stack_raster[window] = reads[a].raster
                     /\ provenance_array[window] = reads[a].key

C1_FilledStays ==
    ( /\ pc = "blend_loop"
      /\ ~notdonemask
      /\ stack_raster[window] # BlendNodata(activity)
      /\ window' = window )
    => /\ stack_raster'[window] = stack_raster[window]
       /\ provenance_array'[window] = provenance_array[window]

C3_ClearAtMostTotal ==
    BlendEnded =>
        \A w \in Windows(activity) :
            files["clear_ob"].data[w] <= files["total_observation"].data[w]

\* C4: a pixel whose band value is nodata in every date is nodata in the best-pixel
\* raster, and in the median composite when the function is MED.
C4_NodataPreserved ==
    ( /\ BlendEnded
      /\ \A k \in DOMAIN reads : reads[k].raster = BlendNodata(activity) )
    => /\ stack_raster[window] = BlendNodata(activity)
       /\ files["cube"].data[window] = BlendNodata(activity)
       /\ activity.composite_function = "MED"
             => median_raster[window] = BlendNodata(activity)

C4_Witness ==
    /\ BlendEnded
    /\ activity.composite_function = "MED"
    /\ Len(reads) = 2
    /\ \A k \in DOMAIN reads : reads[k].raster = BlendNodata(activity)
    /\ QualityClear(1)
    /\ ~activity.band_is_quality
    /\ median_raster[window] = BlendNodata(activity)
    /\ files["cube"].data[window] = BlendNodata(activity)

\* The two-date scenario of C5: mask Fmask, date 1 with efficacy 50 and date 2 with
\* efficacy 83 at the same resolution, quality values among the codes of the mask.
C5_Scenario ==
    /\ BlendEnded
    /\ activity.mask = Fmask
    /\ Len(activity.scenes) = 2
    /\ SceneOfKey(1).efficacy = 50 /\ SceneOfKey(2).efficacy = 83
    /\ SceneOfKey(1).resolution = SceneOfKey(2).resolution
    /\ \A k \in DOMAIN reads :
          reads[k].quality \in Fmask.clear_data \cup Fmask.not_clear_data \cup {Fmask.nodata}

\* The read of the date with the given key.
ReadOfKey(k) == CHOOSE i \in DOMAIN reads : reads[i].key = k

InputIndex(s) == CHOOSE i \in DOMAIN activity.scenes : activity.scenes[i] = s

SameScore(a, b) == a.efficacy * b.resolution = b.efficacy * a.resolution

\* C6 as stated: the scenes are processed by descending score, and scenes of equal
\* score in their input order.
C6_Original ==
    pc = "blend_loop" =>
        \A i, j \in DOMAIN ranked :
            i < j => \/ ScoreHigher(ranked[i], ranked[j])
                     \/ /\ SameScore(ranked[i], ranked[j])
                        /\ InputIndex(ranked[i]) < InputIndex(ranked[j])

\* C6 (amended): the scenes are processed by descending score, every scene once,
\* and scenes of equal score by descending key (date), whatever the input order.
C6_RankOrder ==
    pc = "blend_loop" =>
        /\ Len(ranked) = Len(activity.scenes)
        /\ Range(ranked) = Range(activity.scenes)
        /\ \A i, j \in DOMAIN ranked :
              i < j => \/ ScoreHigher(ranked[i], ranked[j])
                       \/ /\ SameScore(ranked[i], ranked[j])
                          /\ ranked[i].key > ranked[j].key

C6_Witness ==
    /\ pc = "blend_loop"
    /\ Len(ranked) = 2
    /\ SameScore(ranked[1], ranked[2])
    /\ ranked[1].efficacy # ranked[2].efficacy
    /\ InputIndex(ranked[1]) = 2
    /\ ranked[1].key > ranked[2].key

InsideLoop == pc \in {"blend_loop", "blend_block_end", "blend_failed"}

\* C7 as stated: no output file is created or written before the loop over the
\* blocks has completed, so a failure inside the loop leaves no output file.
C7_Original == InsideLoop => \A n \in OutputNames : ~files[n].exists

\* C7 (amended): the composite, total observation and day-of-year provenance files
\* are written only after the loop over the blocks has completed, and without
\* build_clear_observation a failure inside the loop leaves no output file; with
\* build_clear_observation the clear observation file (and the dataset provenance
\* file of a combined collection) exists from before the loop and is written block
\* by block.
C7_WritesAfterLoop ==
    InsideLoop =>
        /\ \A n \in {"cube", "total_observation", "provenance"} : ~files[n].exists
        /\ ~activity.build_clear_observation => \A n \in OutputNames : ~files[n].exists
        /\ activity.build_clear_observation =>
              /\ files["clear_ob"].exists
              /\ files["clear_ob"].written = 1..(window - 1)
              /\ files["datasource"].exists = activity.combined

C7_Witness ==
    /\ pc = "blend_failed"
    /\ window = 2
    /\ ~activity.build_clear_observation
    /\ \A n \in OutputNames : ~files[n].exists

\* C8 as stated: with a categorical mask a pixel of a date is unmasked (clear) in
\* the per-date stack if and only if its quality value is in the clear set.
C8_ClearIffInClearSet ==
    \A k \in DOMAIN stackMA :
        ~stackMA[k].mask <=> reads[k].quality \in activity.mask.clear_data

(***************************************************************************)
(* Claims about _qa_statistics and parse_mask.                             *)
(***************************************************************************)
\* The mask _qa_statistics computes with.
StatParsed == IF stat_compute THEN ParseMask(stat_mask) ELSE stat_mask

\* e is a hundredth nearest to 100 * num / den.
NearestPercent(e, num, den) ==
    /\ 2 * (e * den - 10000 * num) <= den
    /\ 2 * (10000 * num - e * den) <= den

C10_Exclusive ==
    (pc = "stats_done" /\ ~StatParsed.bits) =>
        /\ stat_result.clear_pixels + stat_result.not_clear_pixels
              <= stat_result.total_pixels
        /\ StatParsed.clear_data \cap StatParsed.not_clear_data = {}

(***************************************************************************)
(* Claims about merge.                                                     *)
(***************************************************************************)
\* The first valid pixel among the assets read, nodata when there is none.
RECURSIVE FirstValid(_, _)
FirstValid(rs, nodata) ==
    IF rs = <<>> THEN nodata
    ELSE IF Head(rs) # nodata THEN Head(rs) ELSE FirstValid(Tail(rs), nodata)

\* In combined mode a filled pixel of the buffer is left alone by every step.
C2_FilledStays ==
    (IsCombinedCollection(merge_args) /\ pc \in {"merge_loop", "merge_read"}
        /\ raster_merge # MergeNodata(merge_args))
    => raster_merge' = raster_merge

\* In combined mode the buffer, and the saved file, hold the first valid pixel of
\* the assets read so far: nodata only if no asset was valid there.
C2_FirstValidKept ==
    (IsCombinedCollection(merge_args) /\ pc \in {"merge_loop", "merge_read", "merge_done"}) =>
        /\ raster_merge = FirstValid(merge_reads, MergeNodata(merge_args))
        /\ raster_merge = MergeNodata(merge_args)
              <=> \A i \in DOMAIN merge_reads : merge_reads[i] = MergeNodata(merge_args)
        /\ pc = "merge_done" => merge_result.data = raster_merge

\* C2: in combined-collection mode (more than one dataset, or more than one
\* platform with combined enabled) a pixel of the merge buffer filled with a valid
\* value by an earlier asset is changed by no later asset, even one valid and
\* different there; a pixel ends as nodata only if no asset is valid at it.
C2_CombinedNonOverwrite == [](C2_FirstValidKept) /\ [][C2_FilledStays]_vars

C2_Witness ==
    /\ pc = "merge_done"
    /\ IsCombinedCollection(merge_args)
    /\ Len(merge_reads) = 2
    /\ merge_reads[1] # MergeNodata(merge_args)
    /\ merge_reads[2] # MergeNodata(merge_args)
    /\ merge_reads[1] # merge_reads[2]
    /\ merge_result.data = merge_reads[1]

(***************************************************************************)
(* Claims about build_cube_path and get_item_id.                           *)
(***************************************************************************)
\* C11 as stated: two input tuples (cube name, version, tile id, period, band) that
\* differ in a component get different paths, and different item ids when they
\* differ in a component other than the band; the same inputs give the same path.
C11_CollisionFree ==
    pc = "path_done" =>
        /\ call_args.a # call_args.b => call_result.a.path # call_result.b.path
        /\ [call_args.a EXCEPT !.band = <<>>] # [call_args.b EXCEPT !.band = <<>>]
              => call_result.a.item_id # call_result.b.item_id
        /\ call_result.again = call_result.a

\* The asset the loop of merge is at, or was at when it stopped.
CurrentAsset == assets[asset_index]

\* C12 as stated: for an http link a HEAD request answered with 403 makes the check
\* fail (merge does not go on to read the asset) with the message 'Missing
\* Authentication Token.' without token and "You don't have permission to request
\* this resource." with one; a connection failure fails with a connection error; a
\* local link passes without any request.
C12_ForbiddenFails ==
    pc \in {"merge_read", "merge_failed"} =>
        LET check == CheckRioFileAccess(CurrentAsset.link, merge_args.token, head_response)
        IN /\ (head_response.kind = "response" /\ head_response.status = 403)
                 => /\ pc = "merge_failed"
                    /\ check.raised = "HTTPError"
                    /\ check.msg = IF merge_args.token \/ CurrentAsset.link.token_in_url
                                   THEN "You don't have permission to request this resource."
                                   ELSE "Missing Authentication Token."
           /\ head_response.kind = "ConnectionError"
                 => pc = "merge_failed" /\ check.raised = "ConnectionError"
           /\ ~CurrentAsset.link.http => pc = "merge_read" /\ head_response = NoRequest

(***************************************************************************)
(* Claims about post_processing_quality.                                   *)
(***************************************************************************)
\* The derived bands: datasource, ndvi, evi, cnc, total observation, clear
\* observation and provenance, in any letter case.
IsDerivedName(name) ==
    StrLower(name) \in {<<"d", "a", "t", "a", "s", "o", "u", "r", "c", "e">>,
                        <<"n", "d", "v", "i">>, <<"e", "v", "i">>, <<"c", "n", "c">>,
                        <<"t", "o", "t", "a", "l", "o", "b">>,
                        <<"c", "l", "e", "a", "r", "o", "b">>,
                        <<"p", "r", "o", "v", "e", "n", "a", "n", "c", "e">>}

\* At block w a contributing band (not the quality band, not derived) held nodata.
BandNodataAt(w) ==
    \E i \in DOMAIN ppq_reads[w] :
        /\ ppq_reads[w][i].name # ppq_args.quality_band
        /\ ~IsDerivedName(ppq_reads[w][i].name)
        /\ ppq_reads[w][i].value = ppq_reads[w][i].nodata

\* The sentinel: 1 when a data set name starts with s2 or sentinel, whatever the
\* letter case, else the nodata of the quality band.
Sentinel ==
    IF \E i \in DOMAIN ppq_args.datasets :
          LET d == StrLower(ppq_args.datasets[i])
          IN \/ (Len(d) >= 2 /\ d[1] = "s" /\ d[2] = "2")
             \/ (Len(d) >= 8 /\ SubSeq(d, 1, 8) = <<"s", "e", "n", "t", "i", "n", "e", "l">>)
    THEN 1 ELSE ppq_args.nodata

\* C13 as stated: after post_processing_quality every pixel of the quality raster that was
\* the quality nodata is still nodata; otherwise, if a contributing band (not the
\* quality band, not derived) is nodata there it holds the sentinel; otherwise it
\* is unchanged.  Every band read is a contributing one.
C13_NodataReconciled ==
    pc = "ppq_done" =>
        /\ \A w \in DOMAIN quality_file :
              quality_file[w] =
                 IF ppq_args.quality[w] = ppq_args.nodata THEN ppq_args.nodata
                 ELSE IF BandNodataAt(w) THEN Sentinel
                 ELSE ppq_args.quality[w]
        /\ \A w \in DOMAIN ppq_reads : \A i \in DOMAIN ppq_reads[w] :
              /\ ppq_reads[w][i].name # ppq_args.quality_band
              /\ ~IsDerivedName(ppq_reads[w][i].name)

(***************************************************************************)
(* Claims about parse_mask.                                                *)
(***************************************************************************)
\* C14: parse_mask fails and returns nothing whenever the mask has no nodata key
\* or its value is None; it succeeds for every mask with clear_data and another
\* nodata, 0 included, and returns the same nodata.
C14_NodataRequired ==
    pc = "parse_done" =>
        LET missing == "nodata" \notin DOMAIN call_args
            none == ~missing /\ call_args["nodata"] = PyNone
        IN /\ call_result.raised <=> (missing \/ none)
           /\ call_result.raised => call_result.value = <<>>
           /\ ~call_result.raised =>
                 /\ call_result.value.nodata = call_args["nodata"]
                 /\ call_result.value.clear_data = call_args["clear_data"]

C14_Witness ==
    /\ pc = "parse_done"
    /\ "nodata" \in DOMAIN call_args
    /\ call_args["nodata"] = 0
    /\ ~call_result.raised
    /\ call_result.value.nodata = 0

(***************************************************************************)
(* Claims about blend calls that run side by side.                         *)
(***************************************************************************)
\* C15 as stated: two blend calls for different bands of one cube, version, tile
\* and period never write the same path, also when both build the clear
\* observation.
C15_Original ==
    call_result[1].written \cap call_result[2].written = {}

\* C15: two blend calls for different bands of one cube, version, tile and period
\* write disjoint sets of paths when at most one of them builds the clear
\* observation; when both do and both have ended, both have written the clear
\* observation file and the total observation file.
C15_DisjointUnlessBoth ==
    /\ ~(call_args[1].build_clear_observation /\ call_args[2].build_clear_observation)
          => call_result[1].written \cap call_result[2].written = {}
    /\ (/\ call_args[1].build_clear_observation
        /\ call_args[2].build_clear_observation
        /\ call_result[1].pc = "unit_done"
        /\ call_result[2].pc = "unit_done")
          => {ClearObFilePath(call_args[1]), TotalObservationFile(call_args[1])}
                \subseteq (call_result[1].written \cap call_result[2].written)

\* Both calls ended, one of them built the clear observation, provenance and
\* data set files, the other only its band.
C15_Witness ==
    /\ call_result[1].pc = "unit_done"
    /\ call_result[2].pc = "unit_done"
    /\ call_args[1].build_clear_observation
    /\ ~call_args[2].build_clear_observation
    /\ call_args[1].is_combined_collection
    /\ call_args[1].composite_function = "STK"
    /\ Cardinality(call_result[1].written) = 5
    /\ Cardinality(call_result[2].written) = 1

(***************************************************************************)
(* Claims about extract_qa_bits.                                           *)
(***************************************************************************)
\* C16: extract_qa_bits(v, p) is 2^p when bit p of v is set and 0 when it is not;
\* for v = 43 the positions 0, 1, 3, 5 give 1, 2, 8, 32 and the positions 2, 4
\* give 0.
C16_SingleBit ==
    pc = "bits_done" =>
        LET v == call_args.band_data
            p == call_args.bit_location
        IN /\ call_result = IF (v \div (2 ^ p)) % 2 = 1 THEN 2 ^ p ELSE 0
           /\ v = 43 =>
                 call_result = CASE p = 0 -> 1 [] p = 1 -> 2 [] p = 3 -> 8
                                    [] p = 5 -> 32 [] OTHER -> 0

\* Bit 5 of 43 was extracted and gave 32.
C16_Witness ==
    /\ pc = "bits_done"
    /\ call_args = [band_data |-> 43, bit_location |-> 5]
    /\ call_result = 32

(***************************************************************************)
(* Claims about the total observation of blend.                            *)
(***************************************************************************)
\* C17 as stated: after all dates are processed the total observation of the pixel
\* is the number of dates whose band value there is not the nodata of the band,
\* whatever the quality value.
C17_TotalCountsBandData ==
    pc = "blend_done" =>
        stack_total_observation[1] =
            Cardinality({k \in DOMAIN reads : reads[k].raster # BlendNodata(activity)})

(***************************************************************************)
(* Claims about the valid range and the saturation in blend.               *)
(***************************************************************************)
\* The band value of processed date k is data outside min_value..max_value.
OutOfRange(k) ==
    /\ reads[k].raster # BlendNodata(activity)
    /\ \/ reads[k].raster < activity.min_value
       \/ reads[k].raster > activity.max_value

\* The band value of processed date k is data inside min_value..max_value.
InRange(k) ==
    /\ reads[k].raster # BlendNodata(activity)
    /\ reads[k].raster >= activity.min_value
    /\ reads[k].raster <= activity.max_value

\* Processed date k is flagged in its saturation raster (bits 1..7 not zero).
FlaggedSaturated(k) == RadsatExtractBits(reads[k].saturated, 1, 7) # 0

\* C18 as stated: with apply_valid_range, a date whose band value is out of the
\* valid range does not mark the pixel as done even if its quality is clear, so
\* a lower-ranked date that is clear and in range supplies the composite value.
C18_RangeFiltered ==
    ( /\ BlendEnded
      /\ activity.composite_function = "STK"
      /\ Get(activity, "apply_valid_range", FALSE)
      /\ Len(reads) = 2
      /\ QualityClear(1) /\ OutOfRange(1) /\ ~FlaggedSaturated(1)
      /\ QualityClear(2) /\ InRange(2) /\ ~FlaggedSaturated(2) )
    => stack_raster[window] = reads[2].raster

\* C19 as stated: when the mask names a saturated band, a date flagged saturated
\* at the pixel is masked in the per-date stack whatever its quality value, and
\* it does not mark the pixel as done.
C19_SaturatedMasked ==
    ( /\ pc \in {"blend_loop", "blend_block_end", "blend_close", "blend_done"}
      /\ "saturated_band" \in DOMAIN activity.mask )
    => /\ \A k \in DOMAIN stackMA : FlaggedSaturated(k) => stackMA[k].mask
       /\ (\A k \in DOMAIN stackMA : FlaggedSaturated(k)) => notdonemask

(***************************************************************************)
(* Claims about the provenance of merge.                                   *)
(***************************************************************************)
\* The first asset read that holds data at the pixel: the one that fills it in
\* combined-collection mode.
Supplier ==
    CHOOSE i \in DOMAIN merge_reads :
        /\ merge_reads[i] # MergeNodata(merge_args)
        /\ \A j \in 1..(i - 1) : merge_reads[j] = MergeNodata(merge_args)

\* C20 as stated: with build_provenance in combined-collection mode, after all
\* assets are processed the provenance holds, at a filled pixel, the index of the
\* data set of the asset that supplied the merged value, and the provenance
\* nodata at a pixel left unfilled.
C20_ProvenanceOfSupplier ==
    ( /\ pc = "merge_done"
      /\ merge_args.build_provenance
      /\ IsCombinedCollection(merge_args) )
    => IF raster_merge = MergeNodata(merge_args)
       THEN raster_provenance = 255
       ELSE raster_provenance = assets[Supplier].dataset

(***************************************************************************)
(* Claims about the opportunistic fill of blend.                           *)
(***************************************************************************)
\* The processed dates that hold data of the band at the pixel, in rank order.
DatesWithData == {k \in DOMAIN reads : reads[k].raster # BlendNodata(activity)}

\* The highest-ranked date that holds data at the pixel.
FirstWithData == CHOOSE k \in DatesWithData : \A j \in DatesWithData : k <= j

\* C21 as stated: at a pixel where no date is clear, the best-pixel raster holds
\* the band value of the highest-ranked date that is not nodata there and the
\* provenance holds its day of year; the pixel is nodata only if every date is.
C21_OpportunisticFill ==
    (BlendEnded /\ \A k \in DOMAIN reads : ~QualityClear(k))
    => IF DatesWithData = {}
       THEN stack_raster[window] = BlendNodata(activity)
       ELSE /\ stack_raster[window] = reads[FirstWithData].raster
            /\ provenance_array[window] = reads[FirstWithData].key

\* The same with every quality value in a list of the mask or the mask nodata.
C21_ListedValues ==
    ( /\ BlendEnded
      /\ \A k \in DOMAIN reads : NotUsable(k) )
    => IF DatesWithData = {}
       THEN stack_raster[window] = BlendNodata(activity)
       ELSE /\ stack_raster[window] = reads[FirstWithData].raster
            /\ provenance_array[window] = reads[FirstWithData].key

(***************************************************************************)
(* Claims about the example of the blend docstring.                        *)
(***************************************************************************)
\* C22 as stated: where the quality of the best-ranked date is the mask nodata and
\* the next-ranked date holds a cloud-flagged band value that is not nodata, the
\* stack takes the value and the day of year of the next-ranked date, whatever
\* band value the best-ranked date holds there.
C22_DocstringExample ==
    ( /\ BlendEnded
      /\ Len(reads) = 2
      /\ reads[1].quality = activity.mask.nodata
      /\ reads[2].quality \in activity.mask.not_clear_data
      /\ reads[2].raster # BlendNodata(activity) )
    => /\ stack_raster[window] = reads[2].raster
       /\ provenance_array[window] = reads[2].key

(***************************************************************************)
(* Claims about the median composite of blend.                             *)
(***************************************************************************)
\* The band values of the processed dates whose quality is clear, ascending.
ClearValues ==
    LET sel == SelectSeq(reads, LAMBDA rd : rd.quality \in activity.mask.clear_data)
    IN SortedAsc([i \in DOMAIN sel |-> sel[i].raster])

\* The median of a sorted sequence with at least one value, times two.
TwiceMedian(v) == v[(Len(v) + 1) \div 2] + v[(Len(v) \div 2) + 1]

\* C23 as stated: with the function MED the value of the pixel is the median of the
\* band values of exactly the dates at which the pixel is clear (stored in the
\* type of the band, a half truncated), and the band nodata when no date is clear.
C23_MedianOfClear ==
    (BlendEnded /\ activity.composite_function = "MED")
    => median_raster[window] =
          IF ClearValues = <<>> THEN BlendNodata(activity)
          ELSE TruncHalf(TwiceMedian(ClearValues))

\* The same with every quality value in a list of the mask or the mask nodata.
C23_ListedValues ==
    ( /\ BlendEnded
      /\ activity.composite_function = "MED"
      /\ \A k \in DOMAIN reads : QualityClear(k) \/ NotUsable(k) )
    => median_raster[window] =
          IF ClearValues = <<>> THEN BlendNodata(activity)
          ELSE TruncHalf(TwiceMedian(ClearValues))

(***************************************************************************)
(* Claims about the provenance of blend.                                   *)
(***************************************************************************)
\* The data set provenance is kept: clear observation and combined collections.
KeepsDatasource == activity.build_clear_observation /\ activity.combined

\* Before any date wrote the pixel: nodata, -1 and the data source nodata.
C24_NeverWritten ==
    (pc = "blend_loop" /\ reads = <<>>)
    => /\ stack_raster[window] = BlendNodata(activity)
       /\ provenance_array[window] = -1
       /\ data_set_block = 255

\* A date either leaves value and provenances of the pixel alone or stores its
\* band value, its day of year and, when it is kept, its data set together.
C24_WrittenTogether ==
    (pc = "blend_loop" /\ Len(reads') = Len(reads) + 1)
    => LET rd == reads'[Len(reads')]
       IN \/ /\ stack_raster'[window] = stack_raster[window]
             /\ provenance_array'[window] = provenance_array[window]
             /\ data_set_block' = data_set_block
          \/ /\ stack_raster'[window] = rd.raster
             /\ provenance_array'[window] = rd.key
             /\ KeepsDatasource => data_set_block' = rd.datasource
             /\ ~KeepsDatasource => data_set_block' = data_set_block

\* C24: after any prefix of the ranked dates the day of year provenance and, with
\* combined collections and the clear observation, the data set provenance of a
\* pixel belong to the date whose band value sits in the best-pixel raster; a
\* pixel never written holds -1 and the data source nodata.
C24_ProvenanceLockstep == [](C24_NeverWritten) /\ [][C24_WrittenTogether]_vars

\* The first date filled the pixel though it is cloud, the second date is clear
\* and replaced value, day of year and data set.
C24_Witness ==
    /\ pc = "blend_block_end"
    /\ KeepsDatasource
    /\ Len(reads) = 2
    /\ reads[1].quality = 2 /\ reads[1].raster = 1 /\ reads[1].datasource = 0
    /\ reads[2].quality = 0 /\ reads[2].raster = 2 /\ reads[2].datasource = 1
    /\ stack_raster[window] = 2
    /\ provenance_array[window] = reads[2].key
    /\ data_set_block = 1

(***************************************************************************)
(* Claims about merge without combined collections.                        *)
(***************************************************************************)
\* The last valid pixel among the assets read, nodata when there is none.
RECURSIVE LastValid(_, _)
LastValid(rs, nodata) ==
    IF rs = <<>> THEN nodata
    ELSE IF rs[Len(rs)] # nodata THEN rs[Len(rs)]
         ELSE LastValid(SubSeq(rs, 1, Len(rs) - 1), nodata)

\* C25: when combined-collection mode is not active every valid pixel of an asset
\* overwrites the buffer: after the assets read so far, and after all of them,
\* the pixel holds the value of the last asset valid there, and nodata only if
\* no asset is valid there.
C25_LastAssetWins ==
    (~IsCombinedCollection(merge_args) /\ pc \in {"merge_loop", "merge_read", "merge_done"})
    => /\ raster_merge = LastValid(merge_reads, MergeNodata(merge_args))
       /\ raster_merge = MergeNodata(merge_args)
             <=> \A i \in DOMAIN merge_reads : merge_reads[i] = MergeNodata(merge_args)
       /\ pc = "merge_done" => merge_result.data = raster_merge

\* Two assets valid at the pixel with different values: the second one is kept.
C25_Witness ==
    /\ pc = "merge_done"
    /\ ~IsCombinedCollection(merge_args)
    /\ Len(merge_reads) = 2
    /\ merge_reads[1] # MergeNodata(merge_args)
    /\ merge_reads[2] # MergeNodata(merge_args)
    /\ merge_reads[1] # merge_reads[2]
    /\ merge_result.data = merge_reads[2]

(***************************************************************************)
(* Claims about the target grid of merge.                                  *)
(***************************************************************************)
\* C26 as stated: an explicit shape comes before the native grid: whenever a
\* shape is given it determines rows and cols.
C26_Original ==
    (pc = "grid_done" /\ call_args.shape # NoShape)
    => /\ call_result.cols = call_args.shape[1]
       /\ call_result.rows = call_args.shape[2]

\* C26: the grid is taken from exactly one source with the precedence native tile
\* geometry > explicit shape > bounding box and resolution.  With native_grid the
\* tile extent over the resolution (truncated) gives cols and rows, also when a
\* shape is given; else a shape gives cols = shape[0], rows = shape[1] and no
\* transform; else cols and rows are the rounded extent over the resolution.
C26_GridPrecedence ==
    pc = "grid_done" =>
        LET a == call_args
            g == call_result
        IN IF a.native_grid
           THEN /\ g.cols * a.res.x <= a.tile.xmax - a.tile.xmin
                /\ (g.cols + 1) * a.res.x > a.tile.xmax - a.tile.xmin
                /\ g.rows * a.res.y <= a.tile.ymax - a.tile.ymin
                /\ (g.rows + 1) * a.res.y > a.tile.ymax - a.tile.ymin
                /\ g.transform.kind = "affine"
                /\ g.transform.c = a.tile.xmin /\ g.transform.f = a.tile.ymax
           ELSE IF a.shape # NoShape
           THEN g.cols = a.shape[1] /\ g.rows = a.shape[2] /\ g.transform = NoTransform
           ELSE /\ 2 * g.cols * a.res.x <= 2 * a.bbox.dist_x + a.res.x
                /\ 2 * g.cols * a.res.x >= 2 * a.bbox.dist_x - a.res.x
                /\ 2 * g.rows * a.res.y <= 2 * a.bbox.dist_y + a.res.y
                /\ 2 * g.rows * a.res.y >= 2 * a.bbox.dist_y - a.res.y
                /\ g.transform.kind = "affine"
                /\ g.transform.c = a.bbox.xmin /\ g.transform.f = a.bbox.ymax

\* native_grid with a shape of other dimensions: the tile geometry is used.
C26_Witness ==
    /\ pc = "grid_done"
    /\ call_args.native_grid
    /\ call_args.shape = <<1, 2>>
    /\ call_result.cols = 3
    /\ call_result.rows = 3

(***************************************************************************)
(* Claims about the resampling of merge.                                   *)
(***************************************************************************)
\* C27 as stated: nearest for the quality band, the requested method when one is
\* given, bilinear otherwise, except that the band the mask names as
\* saturated_band is always nearest, also when another method is requested.
C27_ResamplingPolicy ==
    pc = "resampling_done" =>
        call_result =
            IF call_args.band = call_args.quality_band THEN "nearest"
            ELSE IF Get(call_args.mask, "saturated_band", Absent) = call_args.band
                 THEN "nearest"
            ELSE IF call_args.resampling # Absent THEN call_args.resampling
            ELSE "bilinear"

\* The same where the band is not the saturated band and a mask is given.
C27_OtherBands ==
    ( /\ pc = "resampling_done"
      /\ DOMAIN call_args.mask # {}
      /\ Get(call_args.mask, "saturated_band", Absent) # call_args.band )
    => call_result =
            IF call_args.band = call_args.quality_band THEN "nearest"
            ELSE IF call_args.resampling # Absent THEN call_args.resampling
            ELSE "bilinear"

(***************************************************************************)
(* Claims about the datasets blend opens.                                  *)
(***************************************************************************)
\* C28 as stated: when blend returns every dataset it opened is closed, for every
\* composite function and every combination of build_clear_observation and
\* combined collections.
C28_AllClosed ==
    pc = "resources_returned" => call_result.opened \subseteq call_result.closed

\* The band and quality datasets of every date and the clear observation writer
\* are closed when blend returns.
C28_ClosedByBlend ==
    pc = "resources_returned" =>
        \A h \in call_result.opened :
            h.kind \in {"band", "quality", "clear_ob_writer"} => h \in call_result.closed

(***************************************************************************)
(* Claims about post_processing_quality applied twice.                     *)
(***************************************************************************)
\* C29: applying post_processing_quality to its own output with the same band
\* rasters and data sets leaves the quality raster unchanged, for Sentinel data
\* sets (value 1) and for the others (the quality nodata).
C29_Idempotent ==
    [][(pc = "ppq_done" /\ pc' = "ppq_again") => quality_file' = quality_file]_vars

\* The second call ran on a raster in which the first call had changed a pixel
\* to the value 1 of the Sentinel data sets.
C29_Witness ==
    /\ pc = "ppq_again"
    /\ \E w \in DOMAIN quality_file :
          /\ ppq_args.quality[w] # quality_file[w]
          /\ quality_file[w] = 1
          /\ ppq_args.nodata # 1

(***************************************************************************)
(* Claims about the values kept in the per-date stack of blend.            *)
(***************************************************************************)
\* C30 as stated: the per-date stack stores every band value exactly, and at a
\* pixel with exactly one clear date holding v the MED composite is v, also for
\* uint16 values above 32767.
C30_ValuesPreserved ==
    /\ pc \in {"blend_loop", "blend_block_end", "blend_close", "blend_done"}
          => \A k \in DOMAIN stackMA : stackMA[k].data = reads[k].raster
    /\ ( /\ BlendEnded
         /\ activity.composite_function = "MED"
         /\ Cardinality({k \in DOMAIN stackMA : ~stackMA[k].mask}) = 1 )
       => \A k \in DOMAIN stackMA :
             ~stackMA[k].mask => median_raster[window] = reads[k].raster

====
